---- MODULE Spec2Model ----
(***************************************************************************)
(* Chord analyzer: key detection and Roman-numeral analysis of a chord     *)
(* progression (src/js/chord-analyzer.js, lines 1-755).                    *)
(*                                                                         *)
(* A JavaScript string is a sequence of one-character strings; a note or   *)
(* key name (a property key such as "C#") is a TLA+ string.  Arrays are    *)
(* 0-based in the source: NoteAt and At read them with the source's index. *)
(***************************************************************************)
EXTENDS Integers, Sequences, FiniteSets, TLC

VARIABLES majorScales, chordString, pc, result, calls, firstResult, repeated,
          currentAnalysis, displayed, download, alertText, event, submitted, windowMidi

\* The page's own state (src/unnamed/part_002): the stored analysis, the results card,
\* the file handed to the browser, the text of the alert the last event raised, the
\* last event, the trimmed text of the last submission that was not empty, and what
\* the script js/jsmidgen.js left in window.Midi.
page == <<currentAnalysis, displayed, download, alertText, event, submitted, windowMidi>>

vars == <<majorScales, chordString, pc, result, calls, firstResult, repeated, page>>

(***************************************************************************)
(* JavaScript values that are not strings, numbers or records.             *)
(***************************************************************************)
\* null where a string (a note or key name) is expected.
Null == "<null>"
\* null where a record (a regex match, a chord) is expected.
NullRecord == [null |-> TRUE]
\* undefined where an array (a scale) is expected.
Undefined == <<>>
\* A number that may be null or -Infinity is a set of at most one integer:
\* {n} is the number n, {} is null (equal to no number) or -Infinity (below every number).
NullNumber == {}
NegInfinity == {}
\* The exception a property read on null or undefined raises.
TypeError == "<TypeError>"

(***************************************************************************)
(* Generic array and string helpers (Array.prototype / String.prototype).  *)
(***************************************************************************)
At(arr, i) == arr[i + 1]

IndexOf(arr, x) ==
  IF \E i \in 1..Len(arr) : arr[i] = x
  THEN (CHOOSE i \in 1..Len(arr) : arr[i] = x /\ \A j \in 1..(i - 1) : arr[j] /= x) - 1
  ELSE -1

Includes(s, sub) ==
  \E i \in 1..(Len(s) - Len(sub) + 1) : SubSeq(s, i, i + Len(sub) - 1) = sub

RECURSIVE Join(_)
Join(cs) == IF cs = <<>> THEN "" ELSE Head(cs) \o Join(Tail(cs))

\* The characters String.prototype.trim strips, as far as a string here can hold them:
\* space, tab, line feed, carriage return, form feed, the no-break space (U+00A0),
\* the vertical tab (U+000B), the byte order mark (U+FEFF) and the ogham space mark
\* (U+1680).  U+2000 to U+200A, U+2028, U+2029, U+202F, U+205F and U+3000 are stripped
\* as well; no string literal can hold them, so no string of the model does.
WhiteSpace == {" ", "\t", "\n", "\r", "\f", " ", "", "﻿", " "}

RECURSIVE TrimStart(_)
TrimStart(s) ==
  IF s /= <<>> /\ Head(s) \in WhiteSpace THEN TrimStart(Tail(s)) ELSE s

RECURSIVE TrimEnd(_)
TrimEnd(s) ==
  IF s /= <<>> /\ s[Len(s)] \in WhiteSpace
  THEN TrimEnd(SubSeq(s, 1, Len(s) - 1)) ELSE s

\* A trim that forgets the trailing white space.
TrimLeadingOnly(s) == TrimStart(s)

Trim(s) == TrimEnd(TrimStart(s))

\* s.split(sep) for a one-character separator: "" splits to one empty piece.
RECURSIVE SplitLoop(_, _, _, _)
SplitLoop(s, sep, i, cur) ==
  IF i > Len(s) THEN <<cur>>
  ELSE IF s[i] = sep THEN <<cur>> \o SplitLoop(s, sep, i + 1, <<>>)
  ELSE SplitLoop(s, sep, i + 1, Append(cur, s[i]))

Split(s, sep) == SplitLoop(s, sep, 1, <<>>)

\* A chord list that keeps the nulls of the tokens that did not parse.
FilterBooleanDropNothing(arr) == arr

\* arr.filter(Boolean): null (and every other falsy value) is dropped.

RECURSIVE FilterBoolean(_)
FilterBoolean(arr) ==
  IF arr = <<>> THEN <<>>
  ELSE IF Head(arr) = NullRecord THEN FilterBoolean(Tail(arr))
  ELSE <<Head(arr)>> \o FilterBoolean(Tail(arr))

(***************************************************************************)
(* Reference tables.                                                       *)
(***************************************************************************)
\* Each entry is the slash-group already split: 'C#/Db' is <<"C#", "Db">>.
NOTES ==
  << <<"C">>, <<"C#", "Db">>, <<"D">>, <<"D#", "Eb">>, <<"E">>, <<"F">>,
     <<"F#", "Gb">>, <<"G">>, <<"G#", "Ab">>, <<"A">>, <<"A#", "Bb">>, <<"B">> >>

NoteAt(i) == NOTES[i + 1]

PREFERRED_KEY_SPELLING ==
  ("G#" :> "Ab") @@ ("D#" :> "Eb") @@ ("A#" :> "Bb") @@ ("C#" :> "Db") @@ ("F#" :> "Gb")

\* PREFERRED_KEY_SPELLING[k] || k
PreferredSpelling(k) ==
  IF k \in DOMAIN PREFERRED_KEY_SPELLING THEN PREFERRED_KEY_SPELLING[k] ELSE k

MAJOR_SCALE_PATTERN == <<0, 2, 4, 5, 7, 9, 11>>

enharmonicEquivalents ==
  ("C#" :> "Db") @@ ("Db" :> "C#") @@ ("D#" :> "Eb") @@ ("Eb" :> "D#") @@
  ("F#" :> "Gb") @@ ("Gb" :> "F#") @@ ("G#" :> "Ab") @@ ("Ab" :> "G#") @@
  ("A#" :> "Bb") @@ ("Bb" :> "A#")

DIATONIC_QUALITIES ==
  [major |-> {0, 3, 4}, minor |-> {1, 2, 5}, diminished |-> {6}]

FUNCTION_NAMES ==
  <<"Tonic", "Supertonic", "Mediant", "Subdominant", "Dominant", "Submediant",
    "Leading Tone">>

ROMAN_NUMERALS ==
  [major |-> <<"I", "II", "III", "IV", "V", "VI", "VII">>,
   minor |-> <<"i", "ii", "iii", "iv", "v", "vi", "vii">>]

\* The scale table is an object: its entries in insertion order.
RECURSIVE BuildScalesFrom(_)
BuildScalesFrom(g) ==
  IF g > 11 THEN <<>>
  ELSE
    LET notations == NoteAt(g)
        primaryNote == notations[1]
        scaleIndex ==
          (CHOOSE i \in 1..12 : NOTES[i][1] = primaryNote
                                /\ \A j \in 1..(i - 1) : NOTES[j][1] /= primaryNote) - 1
        scale == [k \in 1..7 |-> NoteAt((scaleIndex + MAJOR_SCALE_PATTERN[k]) % 12)[1]]
        own == <<[key |-> primaryNote, scale |-> scale]>>
        alias == IF Len(notations) > 1
                 THEN <<[key |-> notations[2], scale |-> scale]>> ELSE <<>>
    IN own \o alias \o BuildScalesFrom(g + 1)

BuildMajorScales == BuildScalesFrom(0)

\* for (const k in majorScales)
ScaleKeys == [i \in 1..Len(majorScales) |-> majorScales[i].key]

\* majorScales[key]
ScaleOf(key) ==
  IF \E i \in 1..Len(majorScales) : majorScales[i].key = key
  THEN majorScales[CHOOSE i \in 1..Len(majorScales) : majorScales[i].key = key].scale
  ELSE Undefined

(***************************************************************************)
(* Utility functions.                                                      *)
(***************************************************************************)
getNoteIndex(note) ==
  IF \E i \in 1..12 : \E k \in 1..Len(NOTES[i]) : NOTES[i][k] = note
  THEN (CHOOSE i \in 1..12 :
          /\ \E k \in 1..Len(NOTES[i]) : NOTES[i][k] = note
          /\ \A j \in 1..(i - 1) : \A k \in 1..Len(NOTES[j]) : NOTES[j][k] /= note) - 1
  ELSE -1

semitoneDiff(note1, note2) ==
  LET i1 == getNoteIndex(note1)
      i2 == getNoteIndex(note2)
  IN IF i1 = -1 \/ i2 = -1 THEN NullNumber ELSE {(i2 - i1 + 12) % 12}

\* a % n of JavaScript: the remainder has the sign of the dividend.
Remainder(a, n) == IF a >= 0 THEN a % n ELSE -((-a) % n)

\* NOTES[i] is undefined for a negative index, and the read of its split raises.
getScaleDegree(root, semitones, scale) ==
  LET noteIndex == getNoteIndex(root)
      adjustedSemitones == Remainder(semitones + 12, 12)
      resultIndex == Remainder(noteIndex + adjustedSemitones, 12)
      resultNote == NoteAt(resultIndex)[1]
  IN IF noteIndex = -1 THEN Null
     ELSE IF resultIndex < 0 THEN TypeError
     ELSE IF scale /= Undefined
             /\ resultNote \in DOMAIN enharmonicEquivalents
             /\ IndexOf(scale, enharmonicEquivalents[resultNote]) /= -1
          THEN enharmonicEquivalents[resultNote]
          ELSE resultNote

\* A lookup that forgets the enharmonic equivalent.
getPositionDirectOnly(note, scale) == IndexOf(scale, note)

getPositionInScale(note, scale) ==
  LET directPosition == IndexOf(scale, note)
  IN IF directPosition /= -1 THEN directPosition
     ELSE IF note \in DOMAIN enharmonicEquivalents
          THEN IndexOf(scale, enharmonicEquivalents[note])
          ELSE -1

(***************************************************************************)
(* Chord parsing.                                                          *)
(***************************************************************************)
RootLetters == {"A", "B", "C", "D", "E", "F", "G"}
Accidentals == {"b", "#"}

\* The match of /^([A-G][b#]?)([^\/]*)(?:\/([A-G][b#]?))?$/ on chord:
\* NullRecord, or the groups root, quality and bass (Null when absent).
RegexMatch(chord) ==
  IF chord = <<>> \/ chord[1] \notin RootLetters THEN NullRecord
  ELSE
    LET rootLen == IF Len(chord) >= 2 /\ chord[2] \in Accidentals THEN 2 ELSE 1
        rest == SubSeq(chord, rootLen + 1, Len(chord))
        slash == IndexOf(rest, "/")
        quality == IF slash = -1 THEN rest ELSE SubSeq(rest, 1, slash)
        bass == IF slash = -1 THEN <<>> ELSE SubSeq(rest, slash + 2, Len(rest))
        bassOk == /\ Len(bass) \in {1, 2}
                  /\ bass[1] \in RootLetters
                  /\ Len(bass) = 2 => bass[2] \in Accidentals
    IN IF slash /= -1 /\ ~bassOk THEN NullRecord
       ELSE [root |-> Join(SubSeq(chord, 1, rootLen)),
             quality |-> quality,
             bass |-> IF slash = -1 THEN Null ELSE Join(bass)]

\* The chord record built from the groups of a match.
ChordRecord(root, quality, chord) ==
  LET isMinor == Includes(quality, <<"m">>) /\ ~Includes(quality, <<"m", "a", "j">>)
      isDiminished == Includes(quality, <<"d", "i", "m">>) \/ Includes(quality, <<"°">>)
      isAugmented == Includes(quality, <<"a", "u", "g">>) \/ Includes(quality, <<"+">>)
      isSeventh == Includes(quality, <<"7">>)
      isMajorSeventh == Includes(quality, <<"m", "a", "j", "7">>)
                        \/ Includes(quality, <<"M", "7">>)
  IN [root |-> root,
      isMinor |-> isMinor,
      isDiminished |-> isDiminished,
      isAugmented |-> isAugmented,
      isSeventh |-> isSeventh,
      isMajorSeventh |-> isMajorSeventh,
      quality |-> IF isMinor THEN "minor"
                  ELSE IF isDiminished THEN "diminished"
                  ELSE IF isAugmented THEN "augmented" ELSE "major",
      chord |-> Join(chord)]

\* if (!match) return null; otherwise the record of its groups.
ChordOfMatch(chord, match) ==
  IF match = NullRecord THEN NullRecord
  ELSE ChordRecord(match.root, match.quality, chord)

\* const chord = chordStr.trim(); const match = chord.match(...)
ParseTrimmed(chord) == ChordOfMatch(chord, RegexMatch(chord))

parseChord(chordStr) ==
  IF chordStr = <<>> THEN NullRecord ELSE ParseTrimmed(Trim(chordStr))

(***************************************************************************)
(* Array callbacks over the chord list.                                    *)
(***************************************************************************)
IsMajorChord(chord) == ~chord.isMinor /\ ~chord.isDiminished /\ ~chord.isAugmented

IsPlainMinor(chord) == chord.isMinor /\ ~chord.isDiminished /\ ~chord.isAugmented

\* chords.filter(chord => !chord.isMinor && !chord.isDiminished && !chord.isAugmented)
RECURSIVE MajorChordsOf(_)
MajorChordsOf(chords) ==
  IF chords = <<>> THEN <<>>
  ELSE IF IsMajorChord(Head(chords)) THEN <<Head(chords)>> \o MajorChordsOf(Tail(chords))
  ELSE MajorChordsOf(Tail(chords))

\* A test that looks at the first chord only.
FirstNonMinorAt(chords, scale, pos) ==
  /\ chords /= <<>>
  /\ getPositionInScale(chords[1].root, scale) = pos
  /\ ~chords[1].isMinor

\* chords.some(chord => getPositionInScale(chord.root, scale) === pos && !chord.isMinor)
SomeNonMinorAt(chords, scale, pos) ==
  \E i \in 1..Len(chords) :
    getPositionInScale(chords[i].root, scale) = pos /\ ~chords[i].isMinor

\* chords.some(chord => getPositionInScale(chord.root, scale) === pos && chord.isMinor)
SomeMinorAt(chords, scale, pos) ==
  \E i \in 1..Len(chords) :
    getPositionInScale(chords[i].root, scale) = pos /\ chords[i].isMinor

\* majorChords.some(chord => getPositionInScale(chord.root, scale) === pos)
SomeAt(majorChords, scale, pos) ==
  \E i \in 1..Len(majorChords) : getPositionInScale(majorChords[i].root, scale) = pos

(***************************************************************************)
(* Invalid-key filter.                                                     *)
(***************************************************************************)
\* A filter without the rule on bVII* together with v*.
keyHasInvalidBorrowedChordsWithoutMinorDominant(chords, key) ==
  LET scale == ScaleOf(key) IN
  IF scale = Undefined THEN FALSE
  ELSE
    LET bii == getScaleDegree(At(scale, 1), -1, Undefined)
        bv == getScaleDegree(At(scale, 4), -1, Undefined)
        bVI == getScaleDegree(At(scale, 0), 8, Undefined)
        bVII == getScaleDegree(At(scale, 0), 10, Undefined)
        hasbiimm == \E i \in 1..Len(chords) :
                      getPositionInScale(chords[i].root, <<bii>>) = 0 /\ IsPlainMinor(chords[i])
        hasbvmm == \E i \in 1..Len(chords) :
                      getPositionInScale(chords[i].root, <<bv>>) = 0 /\ IsPlainMinor(chords[i])
        hasVI_star == \E i \in 1..Len(chords) :
                      getPositionInScale(chords[i].root, scale) = 5 /\ IsMajorChord(chords[i])
        hasbVI_star == \E i \in 1..Len(chords) :
                      getPositionInScale(chords[i].root, <<bVI>>) = 0 /\ IsMajorChord(chords[i])
        hasbVII_star == \E i \in 1..Len(chords) :
                      getPositionInScale(chords[i].root, <<bVII>>) = 0 /\ IsMajorChord(chords[i])
    IN hasbiimm \/ hasbvmm \/ (hasVI_star /\ (hasbVI_star \/ hasbVII_star))

keyHasInvalidBorrowedChords(chords, key) ==
  LET scale == ScaleOf(key) IN
  IF scale = Undefined THEN FALSE
  ELSE
    LET scalePositionii == At(scale, 1)
        scalePositionv == At(scale, 4)
        bii == getScaleDegree(scalePositionii, -1, Undefined)
        bv == getScaleDegree(scalePositionv, -1, Undefined)
        bVI == getScaleDegree(At(scale, 0), 8, Undefined)
        bVII == getScaleDegree(At(scale, 0), 10, Undefined)
        hasbiimm == \E i \in 1..Len(chords) :
                      getPositionInScale(chords[i].root, <<bii>>) = 0 /\ IsPlainMinor(chords[i])
        hasbvmm == \E i \in 1..Len(chords) :
                      getPositionInScale(chords[i].root, <<bv>>) = 0 /\ IsPlainMinor(chords[i])
        hasv_star == \E i \in 1..Len(chords) :
                      getPositionInScale(chords[i].root, scale) = 4 /\ IsPlainMinor(chords[i])
        hasVI_star == \E i \in 1..Len(chords) :
                      getPositionInScale(chords[i].root, scale) = 5 /\ IsMajorChord(chords[i])
        hasbVI_star == \E i \in 1..Len(chords) :
                      getPositionInScale(chords[i].root, <<bVI>>) = 0 /\ IsMajorChord(chords[i])
        hasbVII_star == \E i \in 1..Len(chords) :
                      getPositionInScale(chords[i].root, <<bVII>>) = 0 /\ IsMajorChord(chords[i])
        hasVIWithBorrowed == hasVI_star /\ (hasbVI_star \/ hasbVII_star)
        hasbVIIWithv == hasbVII_star /\ hasv_star
    IN hasbiimm \/ hasbvmm \/ hasVIWithBorrowed \/ hasbVIIWithv

(***************************************************************************)
(* Pattern detectors.                                                      *)
(***************************************************************************)
\* The candidates the inner loop proposes for chord A = chords[i], in loop order.
RECURSIVE RotationRow(_, _, _)
RotationRow(chords, i, j) ==
  IF j >= Len(chords) THEN <<>>
  ELSE
    LET A == At(chords, i)
        B == At(chords, j)
        candidate == getScaleDegree(A.root, 7, Undefined)
        here == IF /\ ~A.isMinor
                   /\ i /= j
                   /\ B.isMinor
                   /\ semitoneDiff(A.root, B.root) = {4}
                   /\ candidate /= Null
                THEN <<candidate>> ELSE <<>>
    IN here \o RotationRow(chords, i, j + 1)

\* The candidates proposed by the double loop, one per qualifying pair, in loop order.
RECURSIVE RotationProposals(_, _)
RotationProposals(chords, i) ==
  IF i >= Len(chords) THEN <<>>
  ELSE RotationRow(chords, i, 0) \o RotationProposals(chords, i + 1)

\* Property keys of candidateCounts, in insertion order.
RECURSIVE FirstOccurrences(_, _)
FirstOccurrences(seq, seen) ==
  IF seq = <<>> THEN <<>>
  ELSE IF Head(seq) \in seen THEN FirstOccurrences(Tail(seq), seen)
  ELSE <<Head(seq)>> \o FirstOccurrences(Tail(seq), seen \cup {Head(seq)})

RECURSIVE RotationBest(_, _, _, _, _)
RotationBest(keys, counts, i, bestCandidate, bestCount) ==
  IF i > Len(keys) THEN [bestCandidate |-> bestCandidate, bestCount |-> bestCount]
  ELSE IF counts[keys[i]] > bestCount
       THEN RotationBest(keys, counts, i + 1, keys[i], counts[keys[i]])
       ELSE RotationBest(keys, counts, i + 1, bestCandidate, bestCount)

getRotationCandidate(chords) ==
  LET proposals == RotationProposals(chords, 0)
      keys == FirstOccurrences(proposals, {})
      candidateCounts ==
        [k \in {proposals[n] : n \in 1..Len(proposals)} |->
           Cardinality({n \in 1..Len(proposals) : proposals[n] = k})]
      best == RotationBest(keys, candidateCounts, 1, Null, 0)
  IN [candidateCounts |-> candidateCounts,
      bestCandidate |-> best.bestCandidate,
      bestCount |-> best.bestCount]

\* A scan that proposes the key of the first whole-step pair, whatever the filter says.
RECURSIVE IVVLoopUnfiltered(_, _, _, _)
IVVLoopUnfiltered(chords, majorChords, i, j) ==
  IF i >= Len(majorChords) THEN Null
  ELSE IF j >= Len(majorChords) THEN IVVLoopUnfiltered(chords, majorChords, i + 1, i + 2)
  ELSE
    LET chord1 == At(majorChords, i)
        chord2 == At(majorChords, j)
        diff == semitoneDiff(chord1.root, chord2.root)
        lowerChord == IF diff = {2} THEN chord1 ELSE chord2
        keyRoot == getScaleDegree(lowerChord.root, -5, Undefined)
    IN IF (diff = {2} \/ diff = {10}) /\ keyRoot /= Null
       THEN PreferredSpelling(keyRoot)
       ELSE IVVLoopUnfiltered(chords, majorChords, i, j + 1)

RECURSIVE IVVLoop(_, _, _, _)
IVVLoop(chords, majorChords, i, j) ==
  IF i >= Len(majorChords) THEN Null
  ELSE IF j >= Len(majorChords) THEN IVVLoop(chords, majorChords, i + 1, i + 2)
  ELSE
    LET chord1 == At(majorChords, i)
        chord2 == At(majorChords, j)
        diff == semitoneDiff(chord1.root, chord2.root)
        lowerChord == IF diff = {2} THEN chord1 ELSE chord2
        keyRoot == getScaleDegree(lowerChord.root, -5, Undefined)
    IN IF /\ (diff = {2} \/ diff = {10})
          /\ keyRoot /= Null
          /\ ~keyHasInvalidBorrowedChords(chords, keyRoot)
       THEN PreferredSpelling(keyRoot)
       ELSE IVVLoop(chords, majorChords, i, j + 1)

detectIVVPattern(chords) ==
  LET majorChords == MajorChordsOf(chords)
  IN IF Len(majorChords) < 2 THEN Null
     ELSE IVVLoop(chords, majorChords, 0, 1)

\* A scan that is content with a major chord on the tonic beside the major sixth.
RECURSIVE VIScanTonicAlone(_, _, _)
VIScanTonicAlone(chords, majorChords, n) ==
  IF n > Len(majorScales) THEN Null
  ELSE
    LET keyName == majorScales[n].key
        scale == majorScales[n].scale
    IN IF keyHasInvalidBorrowedChords(chords, keyName)
       THEN VIScanTonicAlone(chords, majorChords, n + 1)
       ELSE IF SomeAt(majorChords, scale, 5) /\ SomeAt(majorChords, scale, 0)
       THEN PreferredSpelling(keyName)
       ELSE VIScanTonicAlone(chords, majorChords, n + 1)

RECURSIVE VIScan(_, _, _)
VIScan(chords, majorChords, n) ==
  IF n > Len(majorScales) THEN Null
  ELSE
    LET keyName == majorScales[n].key
        scale == majorScales[n].scale
        hasMajorSixth == SomeAt(majorChords, scale, 5)
        hasOne == SomeAt(majorChords, scale, 0)
        hasFour == SomeAt(majorChords, scale, 3)
        hasFive == SomeAt(majorChords, scale, 4)
    IN IF keyHasInvalidBorrowedChords(chords, keyName) THEN VIScan(chords, majorChords, n + 1)
       ELSE IF hasMajorSixth /\ hasOne /\ (hasFour \/ hasFive) THEN PreferredSpelling(keyName)
       ELSE IF hasMajorSixth /\ hasFour /\ hasFive THEN PreferredSpelling(keyName)
       ELSE VIScan(chords, majorChords, n + 1)

\* A detector that never finds the pattern.
detectNoVIPattern(chords) == Null

detectVIPattern(chords) ==
  LET majorChords == MajorChordsOf(chords)
      hasF == SomeAt(majorChords, <<"F">>, 0)
      hasAb == SomeAt(majorChords, <<"Ab">>, 0)
      hasDb == SomeAt(majorChords, <<"Db">>, 0)
      hasD == SomeAt(majorChords, <<"D">>, 0)
      hasBb == SomeAt(majorChords, <<"Bb">>, 0)
      hasA == SomeAt(majorChords, <<"A">>, 0)
      hasC == SomeAt(majorChords, <<"C">>, 0)
      hasEb == SomeAt(majorChords, <<"Eb">>, 0)
      hasG == SomeAt(majorChords, <<"G">>, 0)
      hasE == SomeAt(majorChords, <<"E">>, 0)
  IN IF Len(majorChords) < 2 THEN Null
     ELSE IF hasF /\ hasAb /\ hasDb THEN "Ab"
     ELSE IF hasD /\ hasF /\ hasBb THEN "F"
     ELSE IF hasA /\ hasC /\ hasF THEN "C"
     ELSE IF hasC /\ hasEb /\ hasAb THEN "Eb"
     ELSE IF hasG /\ hasBb /\ hasEb THEN "Bb"
     ELSE IF hasE /\ hasG /\ hasC THEN "G"
     ELSE VIScan(chords, majorChords, 1)

(***************************************************************************)
(* Diatonic quality check.                                                 *)
(***************************************************************************)
\* A check that forgets the minor branch: a minor chord is held to the major positions.
isDiatonicIgnoringMinor(chord, position) ==
  IF position < 0 \/ position > 6 THEN FALSE
  ELSE IF chord.isDiminished THEN position \in DIATONIC_QUALITIES.diminished
  ELSE IF ~chord.isAugmented THEN position \in DIATONIC_QUALITIES.major
  ELSE FALSE

isDiatonicQuality(chord, position) ==
  IF position < 0 \/ position > 6 THEN FALSE
  ELSE IF chord.isDiminished THEN position \in DIATONIC_QUALITIES.diminished
  ELSE IF chord.isMinor THEN position \in DIATONIC_QUALITIES.minor
  ELSE IF ~chord.isAugmented THEN position \in DIATONIC_QUALITIES.major
  ELSE FALSE

(***************************************************************************)
(* Key detection: the score table is an object keyed by candidate key,     *)
(* iterated in the scale table's insertion order.                          *)
(***************************************************************************)
\* The base diatonic score of one candidate.
BaseScore(chords, candidate) ==
  IF keyHasInvalidBorrowedChords(chords, candidate) THEN -1000
  ELSE
    LET scale == ScaleOf(candidate)
        diatonicCount ==
          Cardinality({i \in 1..Len(chords) :
            LET pos == getPositionInScale(chords[i].root, scale)
            IN pos /= -1 /\ isDiatonicQuality(chords[i], pos)})
        flatSixth == getScaleDegree(At(scale, 0), 8, Undefined)
        flatSeventh == getScaleDegree(At(scale, 0), 10, Undefined)
        hasBorrowedVI == SomeNonMinorAt(chords, <<flatSixth>>, 0)
        hasBorrowedVII == SomeNonMinorAt(chords, <<flatSeventh>>, 0)
        hasI == SomeNonMinorAt(chords, scale, 0)
        hasvi == SomeMinorAt(chords, scale, 5)
    IN 2 * diatonicCount
       + (IF SomeNonMinorAt(chords, scale, 0) THEN 1 ELSE 0)
       + (IF SomeNonMinorAt(chords, scale, 3) THEN 1 ELSE 0)
       + (IF SomeNonMinorAt(chords, scale, 4) THEN 1 ELSE 0)
       + (IF SomeNonMinorAt(chords, scale, 2) THEN 3 ELSE 0)
       + (IF SomeNonMinorAt(chords, scale, 5) THEN 2 ELSE 0)
       + (IF hasI /\ hasvi /\ (hasBorrowedVI \/ hasBorrowedVII) THEN 4 ELSE 0)

BaseScores(chords) ==
  [candidate \in {ScaleKeys[n] : n \in 1..Len(ScaleKeys)} |-> BaseScore(chords, candidate)]

\* candidateScores[key] += bonus
AddTo(candidateScores, key, bonus) ==
  [candidateScores EXCEPT ![key] = @ + bonus]

\* if (viPattern) candidateScores[viPattern] += 10
WithVIBonus(candidateScores, viPattern) ==
  IF viPattern /= Null THEN AddTo(candidateScores, viPattern, 10) ELSE candidateScores

\* A scoring that forgets the IV-V bonus.
WithoutIVVBonus(chords, candidateScores, ivvCandidate) == candidateScores

\* if (ivvCandidate) candidateScores[ivvCandidate] += tonicPresent ? 8 : 4
WithIVVBonus(chords, candidateScores, ivvCandidate) ==
  IF ivvCandidate /= Null
  THEN AddTo(candidateScores, ivvCandidate,
             IF SomeNonMinorAt(chords, ScaleOf(ivvCandidate), 0) THEN 8 ELSE 4)
  ELSE candidateScores

ROTATION_WEIGHT == 2

ROTATION_MARGIN_THRESHOLD == 2

\* Every rotation candidate gets its count times ROTATION_WEIGHT.
RotationWeighted(candidateScores, counts) ==
  [c \in DOMAIN candidateScores |->
     candidateScores[c] + (IF c \in DOMAIN counts THEN counts[c] * ROTATION_WEIGHT ELSE 0)]

\* The best rotation candidate gets ROTATION_WEIGHT more when its count reaches
\* ROTATION_MARGIN_THRESHOLD.
RotationMargin(weighted, rotationInfo) ==
  IF rotationInfo.bestCount >= ROTATION_MARGIN_THRESHOLD
  THEN AddTo(weighted, rotationInfo.bestCandidate, ROTATION_WEIGHT)
  ELSE weighted

WithRotationBonus(candidateScores, rotationInfo) ==
  IF rotationInfo.bestCandidate = Null THEN candidateScores
  ELSE RotationMargin(RotationWeighted(candidateScores, rotationInfo.candidateCounts),
                      rotationInfo)

\* vi-I-IV: +12 to every candidate with a minor vi, a non-minor I and a non-minor IV.
HasViIIV(chords, scale) ==
  /\ scale /= Undefined
  /\ SomeMinorAt(chords, scale, 5)
  /\ SomeNonMinorAt(chords, scale, 0)
  /\ SomeNonMinorAt(chords, scale, 3)

WithViIIVBonus(chords, candidateScores) ==
  [c \in DOMAIN candidateScores |->
     candidateScores[c] + (IF HasViIIV(chords, ScaleOf(c)) THEN 12 ELSE 0)]

\* VI*-IV with the tonic absent: +10 (hasMajorII is computed and not used).
HasVIIVNoTonic(chords, scale) ==
  LET hasMajorVI == SomeNonMinorAt(chords, scale, 5)
      hasMajorIV == SomeNonMinorAt(chords, scale, 3)
      hasMajorII == SomeNonMinorAt(chords, scale, 1)
      hasMissingI == ~SomeNonMinorAt(chords, scale, 0)
  IN scale /= Undefined /\ hasMajorVI /\ hasMajorIV /\ hasMissingI

WithTonicAbsentBonus(chords, candidateScores) ==
  [c \in DOMAIN candidateScores |->
     candidateScores[c] + (IF HasVIIVNoTonic(chords, ScaleOf(c)) THEN 10 ELSE 0)]

\* The score table after the base scores and the five bonuses, in the source's order.
CandidateScores(chords) ==
  WithTonicAbsentBonus(chords,
    WithViIIVBonus(chords,
      WithRotationBonus(
        WithIVVBonus(chords,
          WithVIBonus(BaseScores(chords), detectVIPattern(chords)),
          detectIVVPattern(chords)),
        getRotationCandidate(chords))))

\* A pick in which a later candidate with an equal score replaces the best one.
RECURSIVE PickBestLastWins(_, _, _, _)
PickBestLastWins(candidateScores, n, bestCandidate, bestScore) ==
  IF n > Len(ScaleKeys) THEN bestCandidate
  ELSE
    LET candidate == ScaleKeys[n]
    IN IF \A b \in bestScore : candidateScores[candidate] >= b
       THEN PickBestLastWins(candidateScores, n + 1, candidate, {candidateScores[candidate]})
       ELSE PickBestLastWins(candidateScores, n + 1, bestCandidate, bestScore)

\* Pick the candidate with the highest score: a later one needs a strictly greater score.
RECURSIVE PickBest(_, _, _, _)
PickBest(candidateScores, n, bestCandidate, bestScore) ==
  IF n > Len(ScaleKeys) THEN bestCandidate
  ELSE
    LET candidate == ScaleKeys[n]
    IN IF \A b \in bestScore : candidateScores[candidate] > b
       THEN PickBest(candidateScores, n + 1, candidate, {candidateScores[candidate]})
       ELSE PickBest(candidateScores, n + 1, bestCandidate, bestScore)

RECURSIVE PickNextBest(_, _, _, _, _, _)
PickNextBest(chords, candidateScores, bestCandidate, n, nextBestCandidate, nextBestScore) ==
  IF n > Len(ScaleKeys) THEN nextBestCandidate
  ELSE
    LET candidate == ScaleKeys[n]
    IN IF /\ \A b \in nextBestScore : candidateScores[candidate] > b
          /\ candidate /= bestCandidate
          /\ ~keyHasInvalidBorrowedChords(chords, candidate)
       THEN PickNextBest(chords, candidateScores, bestCandidate, n + 1,
                         candidate, {candidateScores[candidate]})
       ELSE PickNextBest(chords, candidateScores, bestCandidate, n + 1,
                         nextBestCandidate, nextBestScore)

\* if (nextBestCandidate) bestCandidate = nextBestCandidate
OrNextBest(bestCandidate, nextBestCandidate) ==
  IF nextBestCandidate /= Null THEN nextBestCandidate ELSE bestCandidate

\* A detection without the safety check: the highest score is returned as it is.
SafetyCheckSkipped(chords, candidateScores, bestCandidate) == bestCandidate

\* Safety check: an invalid best candidate gives way to the best valid one, if any.
SafetyCheck(chords, candidateScores, bestCandidate) ==
  IF bestCandidate /= Null /\ keyHasInvalidBorrowedChords(chords, bestCandidate)
  THEN OrNextBest(bestCandidate,
         PickNextBest(chords, candidateScores, bestCandidate, 1, Null, NegInfinity))
  ELSE bestCandidate

PickAndCheck(chords, candidateScores) ==
  SafetyCheck(chords, candidateScores, PickBest(candidateScores, 1, Null, NegInfinity))

\* The key before its preferred spelling is applied.
BestCandidate(chords) == PickAndCheck(chords, CandidateScores(chords))

\* A return that forgets the preferred spelling.
SpelledKeyAsIs(bestCandidate) == bestCandidate

\* return bestCandidate ? (PREFERRED_KEY_SPELLING[bestCandidate] || bestCandidate) : null
SpelledKey(bestCandidate) ==
  IF bestCandidate /= Null THEN PreferredSpelling(bestCandidate) ELSE Null

\* A property read on a missing scale (the IV-V candidate's) raises.
MissingScale(key) == key /= Null /\ ScaleOf(key) = Undefined

\* A chord that is null makes the first read of chord.root raise; so does the scale
\* lookup of an IV-V candidate that is no key of the scale table.
detectKeyRaises(chords) ==
  \/ \E i \in 1..Len(chords) : chords[i] = NullRecord
  \/ MissingScale(detectIVVPattern(chords))

detectKey(chords) ==
  IF Len(chords) = 0 THEN Null
  ELSE IF detectKeyRaises(chords) THEN TypeError
  ELSE SpelledKey(BestCandidate(chords))

(***************************************************************************)
(* Roman numeral analysis.                                                 *)
(***************************************************************************)
chromaticIntervals ==
  <<"I", "bII", "II", "bIII", "III", "IV", "bV", "V", "bVI", "VI", "bVII", "VII">>

\* numeral.toLowerCase() on an entry of chromaticIntervals.
ToLowerCase(numeral) ==
  LET lower == <<"i", "bii", "ii", "biii", "iii", "iv", "bv", "v", "bvi", "vi", "bvii", "vii">>
  IN lower[IndexOf(chromaticIntervals, numeral) + 1]

\* numeral += chord.isMajorSeventh ? 'maj7' : '7', when chord.isSeventh
SeventhSuffix(chord) ==
  IF chord.isSeventh THEN (IF chord.isMajorSeventh THEN "maj7" ELSE "7") ELSE ""

getChromaticNumeral(chord, key) ==
  LET tonicIndex == getNoteIndex(key)
      chordIndex == getNoteIndex(chord.root)
      semitones == (chordIndex - tonicIndex + 12) % 12
      interval == At(chromaticIntervals, semitones)
      numeral == IF chord.isMinor THEN ToLowerCase(interval)
                 ELSE IF chord.isDiminished THEN ToLowerCase(interval) \o "°"
                 ELSE IF chord.isAugmented THEN interval \o "+"
                 ELSE interval
  IN IF tonicIndex = -1 \/ chordIndex = -1
     THEN [numeral |-> "?", function |-> "Unknown"]
     ELSE [numeral |-> numeral \o SeventhSuffix(chord) \o "*", function |-> "Borrowed Chord"]

getRomanNumeral(chord, key) ==
  LET scale == ScaleOf(key) IN
  IF scale = Undefined THEN [numeral |-> "?", function |-> "Unknown", diatonic |-> FALSE]
  ELSE
    LET flatVI == getScaleDegree(At(scale, 0), 8, Undefined)
        flatVII == getScaleDegree(At(scale, 0), 10, Undefined)
        pos == getPositionInScale(chord.root, scale)
        diatonic == isDiatonicQuality(chord, pos)
        base == IF chord.isMinor THEN At(ROMAN_NUMERALS.minor, pos)
                ELSE IF chord.isDiminished THEN At(ROMAN_NUMERALS.minor, pos) \o "°"
                ELSE IF chord.isAugmented THEN At(ROMAN_NUMERALS.major, pos) \o "+"
                ELSE At(ROMAN_NUMERALS.major, pos)
        numeral == base \o SeventhSuffix(chord) \o (IF diatonic THEN "" ELSE "*")
        funcName ==
          IF ~diatonic /\ pos = 1 /\ ~chord.isMinor THEN "V of V"
          ELSE IF ~diatonic /\ pos = 2 /\ ~chord.isMinor THEN "Phrygian Dominant"
          ELSE IF ~diatonic /\ pos = 3 /\ chord.isMinor THEN "Minor Four"
          ELSE IF ~diatonic /\ pos = 5 /\ ~chord.isMinor THEN "Tierce de Picardie"
          ELSE At(FUNCTION_NAMES, pos)
        chromatic == getChromaticNumeral(chord, key)
    IN IF getPositionInScale(chord.root, <<flatVI>>) = 0 /\ ~chord.isMinor
       THEN [numeral |-> "bVI*", function |-> "Borrowed Chord", diatonic |-> FALSE]
       ELSE IF getPositionInScale(chord.root, <<flatVII>>) = 0 /\ ~chord.isMinor
       THEN [numeral |-> "bVII*", function |-> "Borrowed Chord", diatonic |-> FALSE]
       ELSE IF pos /= -1
       THEN [numeral |-> numeral, function |-> funcName, diatonic |-> diatonic]
       ELSE [numeral |-> chromatic.numeral, function |-> chromatic.function,
             diatonic |-> FALSE]

(***************************************************************************)
(* Main analysis function.                                                 *)
(***************************************************************************)
\* chordString.split(',').map(c => c.trim())
MapTrim(pieces) == [i \in 1..Len(pieces) |-> Trim(pieces[i])]

ChordStrings(str) == MapTrim(Split(str, ","))

\* chordStrings.map(parseChord).filter(Boolean)
MapParseChord(chordStrings) ==
  [i \in 1..Len(chordStrings) |-> parseChord(chordStrings[i])]

ParsedChords(str) == FilterBoolean(MapParseChord(ChordStrings(str)))

\* An analysis without the early return on an empty chord list.
NoChordsNeverReturns(chords) == FALSE

\* if (chords.length === 0) return { key: null, analysis: [] }

NoChords(chords) == Len(chords) = 0

\* One entry of the analysis.
AnalysisEntry(chord, roman) ==
  [chord |-> chord.chord,
   numeral |-> roman.numeral,
   function |-> roman.function,
   diatonic |-> roman.diatonic]

\* chords.map(chord => ...) and the returned record, or the exception detectKey raised.
AnalysisWithKey(chords, key) ==
  IF key = TypeError THEN [exception |-> TypeError]
  ELSE [key |-> key,
        analysis |-> [i \in 1..Len(chords) |->
                        AnalysisEntry(chords[i], getRomanNumeral(chords[i], key))]]

AnalyzeParsed(chords) ==
  IF NoChords(chords) THEN [key |-> Null, analysis |-> <<>>]
  ELSE AnalysisWithKey(chords, detectKey(chords))

\* The result: the record {key, analysis}, or the exception the call raises.
analyzeChords(str) == AnalyzeParsed(ParsedChords(str))

\* How often the call runs each step: one parseChord per piece, then, past the
\* early return, one detectKey and one getRomanNumeral per chord.
CallsOnParsed(pieces, chords) ==
  [parseChord |-> Len(pieces),
   detectKey |-> IF NoChords(chords) THEN 0 ELSE 1,
   getRomanNumeral |-> IF NoChords(chords) \/ detectKeyRaises(chords)
                       THEN 0 ELSE Len(chords)]

analyzeChordsCalls(str) == CallsOnParsed(ChordStrings(str), ParsedChords(str))

(***************************************************************************)
(* Input strings: chord tokens joined by ", " as the page's examples are.  *)
(***************************************************************************)
\* The longest progression over the song tokens.
MaxChords == 3

\* Every root the grammar accepts (17 name a note, Cb Fb E# B# do not), and H.
RootTexts ==
  {<<l>> \o a : l \in RootLetters \cup {"H"}, a \in {<<>>, <<"#">>, <<"b">>}}

KnownRootTexts == {r \in RootTexts : getNoteIndex(Join(r)) /= -1}

\* Quality texts for the flag combinations key detection reads, and a seventh.
CoreQualityTexts ==
  {<<>>, <<"m">>, <<"7">>, <<"°">>, <<"+">>}

QualityTexts ==
  CoreQualityTexts \cup
  {<<"d", "i", "m">>, <<"a", "u", "g">>, <<"m", "7">>, <<"m", "a", "j", "7">>, <<"M", "7">>,
   <<"m", "+">>, <<"d", "i", "m", "+">>, <<"/", "E">>, <<"m", "/", "B", "b">>, <<"/">>,
   <<"/", "H">>, <<" ">>, <<"\t">>, <<"\n">>}

CoreRootTexts ==
  KnownRootTexts \cup {<<"C", "b">>, <<"E", "#">>, <<"B", "#">>, <<"H">>}

CoreTokens == {r \o q : r \in CoreRootTexts, q \in CoreQualityTexts}

SingleTokens == {r \o q : r \in RootTexts, q \in QualityTexts}

CommaSpace == <<",", " ">>

RECURSIVE JoinWith(_, _)
JoinWith(tokens, sep) ==
  IF tokens = <<>> THEN <<>>
  ELSE IF Len(tokens) = 1 THEN tokens[1]
  ELSE tokens[1] \o sep \o JoinWith(Tail(tokens), sep)

\* The empty progression, and every single chord and pair of chords over the core tokens.
CoreProgressions ==
  {<<>>} \cup {<<t>> : t \in CoreTokens} \cup (CoreTokens \X CoreTokens)

\* Chords of the key of C, diatonic and borrowed, and every progression of up to
\* MaxChords of them.
SongTokens ==
  {<<"C">>, <<"F">>, <<"G">>, <<"A", "m">>, <<"D", "m">>, <<"E", "m">>,
   <<"B", "b">>, <<"A", "b">>}

SongProgressions == UNION {[1..n -> SongTokens] : n \in 0..MaxChords}

\* Three major chords on any known roots: the patterns of the VI* detector.
MajorTriples == [1..3 -> KnownRootTexts]

\* How often a chord is repeated in the crowded progression.
ManyChords == 24

RECURSIVE Repeated(_, _)
Repeated(token, n) == IF n = 0 THEN <<>> ELSE <<token>> \o Repeated(token, n - 1)

\* ManyChords times C, as often Em, and G#m: the rotation tally of G outweighs the
\* penalty G gets for the minor chord on its flat second.
Crowded ==
  Repeated(<<"C">>, ManyChords) \o Repeated(<<"E", "m">>, ManyChords)
    \o << <<"G", "#", "m">> >>

\* The longest chord list of which every reordering is tried; a longer list is
\* tried in reverse.
MaxPermuted == 4

\* Minor chords on C, D, E, F#, G# and A#: every candidate key has a minor chord on
\* its flat second or flat fifth.
WholeToneMinors ==
  << <<"C", "m">>, <<"D", "m">>, <<"E", "m">>, <<"F", "#", "m">>, <<"G", "#", "m">>,
     <<"A", "#", "m">> >>

\* The progressions the documentation and the examples name.
Am == <<"A", "m">>
Dm == <<"D", "m">>
Scenarios ==
  { << <<"C">>, <<"G">>, Am, <<"F">> >>,
    << Am, <<"F">>, <<"G">> >>,
    << <<"D", "m", "7">>, <<"G", "7">>, <<"C", "m", "a", "j", "7">> >>,
    << <<"F">>, <<"G">>, Am, <<"C">> >>,
    << <<"F">>, Am, <<"G">>, <<"D">> >>,
    << <<"A">>, <<"C">>, <<"F">>, <<"E">>, <<"C">>, <<"F">> >>,
    << Am, <<"C">>, <<"G">>, <<"F">> >>,
    << Am, <<"C">>, Dm, Am, <<"C">>, <<"F">> >>,
    << <<"A">>, <<"C">>, <<"F">>, <<"G">>, <<"A">>, <<"C">>, <<"F">>, <<"D">> >>,
    << Dm, <<"E">>, <<"F">> >>,
    << <<"B", "d", "i", "m">>, <<"C">> >>,
    << <<"C">>, Am, <<"A", "b", "7">> >>,
    Crowded,
    WholeToneMinors,
    << <<"C">>, Dm, <<"E", "b">> >>,
    << <<"A">>, <<"C">>, <<"F">>, <<"B", "b">> >>,
    << <<"G", "m">>, <<"A">>, <<"E", "b">>, <<"F">>, <<"C", "m">> >>,
    << <<"E", "b">>, <<"F">>, <<"C">>, <<"D">> >>,
    << <<"C">>, Am, <<"F">>, <<"B", "b", "7">> >>,
    << <<"H">>, <<" ", "G", " ">>, <<>>, <<"C", "/">>, <<"A", "m", " ", " ">> >>,
    << <<"\n", "C">>, <<"G", "\r", "\n">>, <<"\f", "A", "m", " ">> >>,
    << <<"", "C">>, <<"G", "﻿">>, <<" ", "A", "m">> >> }

\* window.ChordExamples: the chords string and the expected key of each entry.
ChordExamples ==
  << [chords |-> JoinWith(<< <<"F">>, <<"G">>, Am, <<"C">> >>, CommaSpace),
      expectedKey |-> "C"],
     [chords |-> JoinWith(<< <<"C">>, <<"D", "b">>, <<"E", "b">> >>, CommaSpace),
      expectedKey |-> "E"],
     [chords |-> JoinWith(<< <<"F">>, Am, <<"G">>, <<"D">> >>, CommaSpace),
      expectedKey |-> "C"],
     [chords |-> JoinWith(<< <<"A">>, <<"C">>, <<"F">>, <<"E">>, <<"C">>, <<"F">> >>, CommaSpace),
      expectedKey |-> "C"],
     [chords |-> JoinWith(<< Am, <<"C">>, <<"G">>, <<"F">> >>, CommaSpace),
      expectedKey |-> "C"],
     [chords |-> JoinWith(<< <<"F">>, <<"G">>, <<"D">> >>, CommaSpace),
      expectedKey |-> "C"],
     [chords |-> JoinWith(<< Am, <<"C">>, Dm, Am, <<"C">>, <<"F">> >>, CommaSpace),
      expectedKey |-> "C"],
     [chords |-> JoinWith(<< <<"E">>, <<"F">>, <<"G">> >>, CommaSpace),
      expectedKey |-> "C"],
     [chords |-> JoinWith(<< <<"A">>, <<"C">>, <<"F">>, <<"G">>, <<"A">>, <<"C">>, <<"F">>,
                             <<"D">> >>, CommaSpace),
      expectedKey |-> "C"],
     [chords |-> JoinWith(<< Dm, <<"E">>, <<"F">> >>, CommaSpace),
      expectedKey |-> "C"] >>

Inputs ==
  {JoinWith(p, CommaSpace) : p \in CoreProgressions}
  \cup {JoinWith(p, CommaSpace) : p \in SongProgressions}
  \cup {JoinWith(p, CommaSpace) : p \in MajorTriples}
  \cup {JoinWith(p, CommaSpace) : p \in Scenarios}
  \cup {ChordExamples[n].chords : n \in 1..Len(ChordExamples)}
  \cup SingleTokens

\* The strings one page passes, one call after another.
SessionInputs ==
  {JoinWith(p, CommaSpace) :
     p \in { <<>>,
             << <<"H">> >>,
             << <<"C", "b">>, <<"G">> >>,
             << <<"C">>, <<"G">>, Am, <<"F">> >>,
             << <<"A">>, <<"C">>, <<"F">> >>,
             << <<"C">>, <<"D", "b">>, <<"E", "b">> >>,
             << <<"E", "m">>, <<"C">>, <<"G", "#", "°">> >> }}

(***************************************************************************)
(* The library in a page: the scale table is built once when the script    *)
(* loads; a caller of window.ChordAnalyzer.analyzeChords passes a string.  *)
(***************************************************************************)
Pending == [pending |-> TRUE]

\* The results card before the first displayResults: class "hidden", an empty table.
Hidden == [hidden |-> TRUE]
\* No file has been handed to the browser.
NoDownload == [none |-> TRUE]

\* DOMContentLoaded: let currentAnalysis = null; nothing shown, downloaded or alerted.
PageLoaded ==
  /\ currentAnalysis = NullRecord
  /\ displayed = Hidden
  /\ download = NoDownload
  /\ alertText = Null
  /\ event = "load"
  /\ submitted = <<>>
NoCalls == [parseChord |-> 0, detectKey |-> 0, getRomanNumeral |-> 0]

Init ==
  /\ majorScales = BuildMajorScales
  /\ chordString \in Inputs
  /\ pc = "idle"
  /\ result = Pending
  /\ calls = NoCalls
  /\ firstResult = <<>>
  /\ repeated = FALSE
  /\ PageLoaded
  /\ windowMidi = "loaded"

\* One call of analyzeChords on the caller's string.  firstResult keeps the
\* result of the first call on each string; repeated tells a call on a string that was
\* analysed before.
Analyze ==
  /\ pc = "idle"
  /\ result' = analyzeChords(chordString)
  /\ calls' = analyzeChordsCalls(chordString)
  /\ firstResult' = IF chordString \in DOMAIN firstResult THEN firstResult
                    ELSE firstResult @@ (chordString :> result')
  /\ repeated' = (chordString \in DOMAIN firstResult)
  /\ pc' = "done"
  /\ UNCHANGED <<majorScales, chordString, page>>

\* The caller comes back with another string.
Retype ==
  /\ pc = "done"
  /\ chordString' \in SessionInputs
  /\ pc' = "idle"
  /\ UNCHANGED <<majorScales, result, calls, firstResult, repeated, page>>

Next == Analyze

\* One call on any input.
Spec == Init /\ [][Next]_vars

SessionInit ==
  /\ majorScales = BuildMajorScales
  /\ chordString \in SessionInputs
  /\ pc = "idle"
  /\ result = Pending
  /\ calls = NoCalls
  /\ firstResult = <<>>
  /\ repeated = FALSE
  /\ PageLoaded
  /\ windowMidi = "loaded"

SessionNext == Analyze \/ Retype

\* Any number of calls, one after another, in one page.
SessionSpec == SessionInit /\ [][SessionNext]_vars

(***************************************************************************)
(* The page (src/unnamed/part_002): the submit handler of the chord form,  *)
(* the click handler of the "Download MIDI" button and the MIDI export.    *)
(* chordString is the value of the chord-input field at a submission.      *)
(***************************************************************************)
\* Values of the chord-input field (a text input: its value holds no line break):
\* empty and white space only, padded, unparseable, unknown roots, slash and seventh
\* chords, keys spelled with a flat.
PageInputs ==
  { <<>>,
    <<" ", "\t", "\f">>,
    <<" ">> \o JoinWith(<< <<"C">>, <<"G">>, Am, <<"F">> >>, CommaSpace) \o <<" ">>,
    JoinWith(<< <<"H">> >>, CommaSpace),
    JoinWith(<< <<"B", "b">>, <<"E", "b">>, <<"F">> >>, CommaSpace),
    JoinWith(<< <<"F", "#">>, <<"B">>, <<"C", "#">> >>, CommaSpace),
    JoinWith(<< <<"D", "m", "7">>, <<"G", "7">>, <<"C", "m", "a", "j", "7">> >>, CommaSpace),
    JoinWith(<< <<"G">>, <<"/", "x">>, <<>>, <<"C", "b">>, <<"E", "/", "G", "#">>,
                <<"B", "d", "i", "m">> >>, CommaSpace) }

\* How many of the example buttons are clicked.
MaxExamples == 3

ExampleButtons == 1..(IF MaxExamples < Len(ChordExamples) THEN MaxExamples
                      ELSE Len(ChordExamples))

\* A chord or key name of an analysis, character by character: the texts the page
\* can hold are the trimmed tokens of its inputs and the names of the roots.
PageTexts ==
  RootTexts \cup
  UNION { {ChordStrings(Trim(s))[k] : k \in 1..Len(ChordStrings(Trim(s)))} :
            s \in PageInputs \cup {ChordExamples[n].chords : n \in ExampleButtons} }

CharsOf(text) == CHOOSE cs \in PageTexts : Join(cs) = text

\* s.replace(pattern, replacement) for a one-character pattern: the first occurrence.
Replace(s, pattern, replacement) ==
  IF IndexOf(s, pattern) = -1 THEN s
  ELSE SubSeq(s, 1, IndexOf(s, pattern)) \o replacement
         \o SubSeq(s, IndexOf(s, pattern) + 2, Len(s))

\* One row of the results table.
ResultRow(item) ==
  [class |-> IF ~item.diatonic THEN "non-diatonic" ELSE "",
   chord |-> item.chord,
   numeral |-> item.numeral,
   function |-> item.function]

\* displayResults: the key (or 'Unknown'), one row per entry, the card no longer hidden.
displayResults(res) ==
  [key |-> IF res.key = Null THEN "Unknown" ELSE res.key,
   rows |-> [i \in 1..Len(res.analysis) |-> ResultRow(res.analysis[i])]]

\* getChordNotes: const notes, const flatToSharp.
MidiNotes == <<"C", "C#", "D", "D#", "E", "F", "F#", "G", "G#", "A", "A#", "B">>

flatToSharp ==
  ("Db" :> "C#") @@ ("Eb" :> "D#") @@ ("Gb" :> "F#") @@ ("Ab" :> "G#") @@ ("Bb" :> "A#")

\* if (root.length > 1 && root[1] === 'b') root = flatToSharp[root] || root
\* (every property of flatToSharp is a root whose second character is 'b').
SharpRoot(root) == IF root \in DOMAIN flatToSharp THEN flatToSharp[root] ELSE root

\* notes[index] + octave, the octave one higher when the index is not above the root's.
NoteAbove(index, rootIndex, octave) ==
  MidiNotes[index + 1] \o ToString(IF index <= rootIndex THEN octave + 1 ELSE octave)

\* The root at octave 2, the fifth above it and the tenth above it.
ChordNotesAt(rootIndex, quality) ==
  IF rootIndex = -1 THEN <<>>
  ELSE << MidiNotes[rootIndex + 1] \o "2",
          NoteAbove((rootIndex + 7) % 12, rootIndex, 2),
          NoteAbove((rootIndex + (IF quality = "minor" THEN 3 ELSE 4)) % 12, rootIndex, 3) >>

getChordNotes(chord) == ChordNotesAt(IndexOf(MidiNotes, SharpRoot(chord.root)), chord.quality)

\* The record parseChordForMidi builds from the groups of a match.
MidiChordRecord(root, quality, bassNote) ==
  [root |-> root,
   quality |-> IF Includes(quality, <<"m">>) /\ ~Includes(quality, <<"m", "a", "j">>)
               THEN "minor"
               ELSE IF Includes(quality, <<"d", "i", "m">>) \/ Includes(quality, <<"°">>)
               THEN "diminished"
               ELSE IF Includes(quality, <<"a", "u", "g">>) \/ Includes(quality, <<"+">>)
               THEN "augmented" ELSE "major",
   isSeventh |-> \/ Includes(quality, <<"m", "a", "j", "7">>)
                 \/ Includes(quality, <<"M", "7">>)
                 \/ Includes(quality, <<"7">>),
   isMajorSeventh |-> \/ Includes(quality, <<"m", "a", "j", "7">>)
                      \/ Includes(quality, <<"M", "7">>),
   bassNote |-> IF bassNote = Null THEN root ELSE bassNote]

MidiChordOfMatch(match) ==
  IF match = NullRecord THEN NullRecord
  ELSE MidiChordRecord(match.root, match.quality, match.bass)

\* if (!chordStr) return null; chord = chordStr.trim(); match; if (!match) return null
parseChordForMidi(chordStr) ==
  IF chordStr = <<>> THEN NullRecord ELSE MidiChordOfMatch(RegexMatch(Trim(chordStr)))

\* track.addChord(channel, chord, dur): the call made on the track, in order.
addChord(track, channel, chord, dur) ==
  Append(track, [channel |-> channel, chord |-> chord, dur |-> dur])

\* chordObjects.forEach: a null chord is skipped, any other is added to the track.
RECURSIVE AddChords(_, _)
AddChords(chordObjects, track) ==
  IF chordObjects = <<>> THEN track
  ELSE AddChords(Tail(chordObjects),
                 IF Head(chordObjects) = NullRecord THEN track
                 ELSE addChord(track, 0, getChordNotes(Head(chordObjects)), 512))

\* "progression-in-" + key.replace('#', 'sharp').replace('b', 'flat') + ".mid"
DownloadName(key) ==
  "progression-in-"
    \o Join(Replace(Replace(CharsOf(key), "#", <<"s", "h", "a", "r", "p">>),
                    "b", <<"f", "l", "a", "t">>))
    \o ".mid"

\* window.Midi when the controller runs: index.html loads js/jsmidgen.js before it.
\* The script may not have loaded (window.Midi is undefined), may have loaded, or may
\* have left a library whose calls raise within the try block of the export.
MidiStates == {"undefined", "loaded", "raising"}

\* The file a.click() downloads: its name, the tempo and the chords of its one track.
MidiFile(analysis) ==
  [download |-> DownloadName(IF analysis.key = Null THEN "C" ELSE analysis.key),
   tempo |-> 120,
   track |-> AddChords([i \in 1..Len(analysis.analysis) |->
                           parseChordForMidi(CharsOf(analysis.analysis[i].chord))],
                       <<>>)]

\* createMidiFromAnalysis: without the library an alert and nothing else; an exception
\* raised in the try block is caught, alerted, and no file is downloaded; otherwise
\* a.click() downloads the file.
createMidiFromAnalysis(analysis) ==
  IF windowMidi = "undefined"
  THEN alertText' = "jsmidgen library not found." /\ UNCHANGED download
  ELSE IF windowMidi = "raising"
  THEN alertText' = "MIDI export failed. Check console." /\ UNCHANGED download
  ELSE download' = MidiFile(analysis) /\ alertText' = Null

\* A submit handler that analyses whatever the field holds, empty or not.
SubmitWithoutEmptyCheck(chordInput, res) ==
  /\ currentAnalysis' = res
  /\ displayed' = displayResults(res)
  /\ submitted' = IF chordInput = <<>> THEN submitted ELSE <<chordInput>>

\* if (!chordInput) return; currentAnalysis = result; displayResults(result)
\* (an exception of analyzeChords would leave the handler before the assignment).
SubmitTrimmed(chordInput, res) ==
  IF chordInput = <<>> THEN UNCHANGED <<currentAnalysis, displayed, submitted>>
  ELSE /\ submitted' = <<chordInput>>
       /\ IF "exception" \in DOMAIN res THEN UNCHANGED <<currentAnalysis, displayed>>
          ELSE currentAnalysis' = res /\ displayed' = displayResults(res)

\* The submit event with value in the chord-input field.
SubmitValue(value) ==
  /\ chordString' = value
  /\ event' = "submit"
  /\ alertText' = Null
  /\ SubmitTrimmed(Trim(value), analyzeChords(Trim(value)))
  /\ UNCHANGED <<majorScales, pc, result, calls, firstResult, repeated, download,
                 windowMidi>>

\* The user types a value and submits the form.
Submit == \E value \in PageInputs : SubmitValue(value)

\* An example button: it sets the field to its chords and clicks the analyze button.
ExampleClick == \E n \in ExampleButtons : SubmitValue(ChordExamples[n].chords)

\* The click handler of the "Download MIDI" button.
DownloadMidiClick ==
  /\ event' = "click"
  /\ IF currentAnalysis /= NullRecord
     THEN createMidiFromAnalysis(currentAnalysis)
     ELSE /\ alertText' = "Please analyze chords first before downloading MIDI"
          /\ UNCHANGED download
  /\ UNCHANGED <<majorScales, chordString, pc, result, calls, firstResult, repeated,
                 currentAnalysis, displayed, submitted, windowMidi>>

PageInit ==
  /\ majorScales = BuildMajorScales
  /\ chordString = <<>>
  /\ pc = "idle"
  /\ result = Pending
  /\ calls = NoCalls
  /\ firstResult = <<>>
  /\ repeated = FALSE
  /\ PageLoaded
  /\ windowMidi \in MidiStates

PageNext == Submit \/ ExampleClick \/ DownloadMidiClick

\* Any sequence of submissions and "Download MIDI" clicks in one page.
PageSpec == PageInit /\ [][PageNext]_vars

(***************************************************************************)
(* The text of a submission, read without the analyzer's own split and     *)
(* trim: its comma-separated tokens and what they spell.                   *)
(***************************************************************************)
CommasOf(str) == {i \in 1..Len(str) : str[i] = ","}

TokenCount(str) == Cardinality(CommasOf(str)) + 1

\* The position of the k-th comma; 0 and Len(str) + 1 bound the string.
KthComma(str, k) ==
  IF k = 0 THEN 0
  ELSE IF k > Cardinality(CommasOf(str)) THEN Len(str) + 1
  ELSE CHOOSE i \in CommasOf(str) : Cardinality({j \in CommasOf(str) : j < i}) = k - 1

Token(str, k) == SubSeq(str, KthComma(str, k - 1) + 1, KthComma(str, k) - 1)

TokensOf(str) == [k \in 1..TokenCount(str) |-> Token(str, k)]

InkOf(t) == {i \in 1..Len(t) : t[i] \notin WhiteSpace}

FirstInk(t) == CHOOSE i \in InkOf(t) : \A j \in InkOf(t) : i <= j

LastInk(t) == CHOOSE i \in InkOf(t) : \A j \in InkOf(t) : j <= i

\* The token without the white space around it.
Stripped(t) == IF InkOf(t) = {} THEN <<>> ELSE SubSeq(t, FirstInk(t), LastInk(t))

Parses(t) == parseChord(t) /= NullRecord

ParseableTokens(str) == SelectSeq(TokensOf(str), Parses)

\* The characters of the root a token spells: a letter and an accidental, if any.
RootTextOf(t) ==
  LET c == Stripped(t)
  IN IF Len(c) >= 2 /\ c[2] \in Accidentals THEN SubSeq(c, 1, 2) ELSE SubSeq(c, 1, 1)

RootNameOf(t) == Join(RootTextOf(t))

\* The token with the characters of its root replaced.
WithRoot(t, newRoot) ==
  SubSeq(t, 1, FirstInk(t) - 1) \o newRoot
    \o SubSeq(t, FirstInk(t) + Len(RootTextOf(t)), Len(t))

\* The string with its k-th token replaced.
WithToken(str, k, t) ==
  SubSeq(str, 1, KthComma(str, k - 1)) \o t \o SubSeq(str, KthComma(str, k), Len(str))

\* The spelling of a note name, character by character.
SpellingOf(name) == CHOOSE r \in RootTexts : Join(r) = name

\* Both results give the same key and, entry by entry, the same numeral, function
\* and diatonic flag.
SameNumerals(a1, a2) ==
  /\ Len(a1) = Len(a2)
  /\ \A i \in 1..Len(a1) :
       /\ a1[i].numeral = a2[i].numeral
       /\ a1[i].function = a2[i].function
       /\ a1[i].diatonic = a2[i].diatonic

SameReading(r1, r2) == r1.key = r2.key /\ SameNumerals(r1.analysis, r2.analysis)

NumeralsOf(analysis) == [i \in 1..Len(analysis) |-> analysis[i].numeral]

FunctionsOf(analysis) == [i \in 1..Len(analysis) |-> analysis[i].function]

Text(tokens) == JoinWith(tokens, CommaSpace)

(***************************************************************************)
(* C1.  Tokens and entries.                                                *)
(***************************************************************************)
\* C1: for every input string the analysis holds exactly one entry per
\* comma-separated token that parses as a chord, in input order: the i-th entry's
\* chord field is the i-th parseable token without the white space around it.
C1_OneEntryPerParseableToken ==
  pc = "done" =>
    /\ "analysis" \in DOMAIN result
    /\ Len(result.analysis) = Len(ParseableTokens(chordString))
    /\ \A i \in 1..Len(result.analysis) :
         result.analysis[i].chord = Join(Stripped(ParseableTokens(chordString)[i]))

\* A call on a string that mixes tokens that do not parse with tokens that do, one of
\* them with white space on both sides.
C1_Witness ==
  /\ pc = "done"
  /\ TokenCount(chordString) = 5
  /\ Len(result.analysis) = 2
  /\ result.analysis[1].chord = "G"
  /\ result.analysis[2].chord = "Am"
  /\ \E k \in 1..TokenCount(chordString) : Token(chordString, k) /= Stripped(Token(chordString, k))

(***************************************************************************)
(* C2.  Nothing to analyse.                                                *)
(***************************************************************************)
NothingParses(str) == \A k \in 1..TokenCount(str) : ~Parses(Token(str, k))

\* C2: when the input is the empty string or none of its tokens parses, the result is
\* exactly {key: null, analysis: []}, and neither detectKey nor getRomanNumeral ran.
C2_EmptyResultWithoutDetection ==
  (pc = "done" /\ NothingParses(chordString)) =>
    /\ result = [key |-> Null, analysis |-> <<>>]
    /\ calls.detectKey = 0
    /\ calls.getRomanNumeral = 0

\* A call on a non-empty string none of whose tokens parses.
C2_Witness ==
  /\ pc = "done"
  /\ chordString /= <<>>
  /\ NothingParses(chordString)
  /\ calls.parseChord >= 1
  /\ result.key = Null

(***************************************************************************)
(* C3.  No input makes the analysis raise.                                 *)
(***************************************************************************)
\* A root the grammar accepts that names no note.
UnknownRoot(root) == \A i \in 1..12 : \A k \in 1..Len(NOTES[i]) : NOTES[i][k] /= root

\* Every lookup on the root answers "not found".
LookupsFindNothing(root) ==
  /\ getNoteIndex(root) = -1
  /\ \A n \in 1..12 :
       /\ semitoneDiff(root, NOTES[n][1]) = NullNumber
       /\ semitoneDiff(NOTES[n][1], root) = NullNumber
  /\ \A semitones \in -12..12 : getScaleDegree(root, semitones, Undefined) = Null
  /\ \A n \in 1..Len(majorScales) : getPositionInScale(root, majorScales[n].scale) = -1

\* C3: every call completes with a result and raises nothing; a token whose root is
\* no letter A-G (such as "H") has no entry; for a token whose root matches the grammar
\* and names no note ("Cb", "E#", "B#") every lookup answers "not found", its entry
\* matches no numeral, and no key is detected when it is the only chord.
C3_NeverRaises ==
  pc = "done" =>
    /\ "exception" \notin DOMAIN result
    /\ DOMAIN result = {"key", "analysis"}
    /\ \A k \in 1..TokenCount(chordString) :
         LET t == Token(chordString, k)
         IN (InkOf(t) /= {} /\ Stripped(t)[1] \notin RootLetters) => ~Parses(t)
    /\ \A i \in 1..Len(ParseableTokens(chordString)) :
         LET root == RootNameOf(ParseableTokens(chordString)[i])
         IN UnknownRoot(root) =>
              /\ LookupsFindNothing(root)
              /\ result.analysis[i].numeral = "?"
              /\ result.analysis[i].function = "Unknown"
              /\ result.analysis[i].diatonic = FALSE

\* A call on a string with a token of root H, dropped, and a token of root Cb, kept.
C3_Witness ==
  /\ pc = "done"
  /\ chordString = Text(<< <<"H">>, <<"C", "b">> >>)
  /\ Len(result.analysis) = 1
  /\ result.analysis[1].chord = "Cb"
  /\ result.analysis[1].numeral = "?"

(***************************************************************************)
(* C5.  Enharmonic equivalence.                                            *)
(***************************************************************************)
EnharmonicTwin ==
  [r \in {<<"C", "#">>, <<"D", "b">>, <<"D", "#">>, <<"E", "b">>, <<"F", "#">>,
          <<"G", "b">>, <<"G", "#">>, <<"A", "b">>, <<"A", "#">>, <<"B", "b">>} |->
     CASE r = <<"C", "#">> -> <<"D", "b">>
       [] r = <<"D", "b">> -> <<"C", "#">>
       [] r = <<"D", "#">> -> <<"E", "b">>
       [] r = <<"E", "b">> -> <<"D", "#">>
       [] r = <<"F", "#">> -> <<"G", "b">>
       [] r = <<"G", "b">> -> <<"F", "#">>
       [] r = <<"G", "#">> -> <<"A", "b">>
       [] r = <<"A", "b">> -> <<"G", "#">>
       [] r = <<"A", "#">> -> <<"B", "b">>
       [] r = <<"B", "b">> -> <<"A", "#">>]

\* The tokens whose chord root has an enharmonic twin.
TwinnedTokens(str) ==
  {k \in 1..TokenCount(str) :
     Parses(Token(str, k)) /\ RootTextOf(Token(str, k)) \in DOMAIN EnharmonicTwin}

\* The string with the root of its k-th token respelled as its twin.
Respelled(str, k) ==
  WithToken(str, k, WithRoot(Token(str, k), EnharmonicTwin[RootTextOf(Token(str, k))]))

CDbEb == Text(<< <<"C">>, <<"D", "b">>, <<"E", "b">> >>)
CCsDs == Text(<< <<"C">>, <<"C", "#">>, <<"D", "#">> >>)

\* C5: respelling the root of any chord of the progression as its enharmonic twin
\* leaves the key and every entry's numeral, function and diatonic flag as they are;
\* "C, Db, Eb" and "C, C#, D#" get the same key and the same numerals.
C5_EnharmonicEquivalence ==
  pc = "done" =>
    /\ \A k \in TwinnedTokens(chordString) :
         SameReading(result, analyzeChords(Respelled(chordString, k)))
    /\ chordString = CDbEb => SameReading(result, analyzeChords(CCsDs))

\* The call on "C, Db, Eb": two roots with twins, one of them the detected key's.
C5_Witness ==
  /\ pc = "done"
  /\ chordString = CDbEb
  /\ TwinnedTokens(chordString) = {2, 3}
  /\ Respelled(Respelled(chordString, 2), 3) = CCsDs
  /\ result.key = "Ab"
  /\ NumeralsOf(result.analysis) = NumeralsOf(analyzeChords(CCsDs).analysis)

(***************************************************************************)
(* C6.  Transposition.                                                     *)
(***************************************************************************)
\* Every token is a chord on a known note.
AllKnownChords(str) ==
  \A k \in 1..TokenCount(str) :
    Parses(Token(str, k)) /\ ~UnknownRoot(RootNameOf(Token(str, k)))

\* The token with its root moved up n semitones (in the spelling the note table lists first).
TransposedToken(t, n) ==
  WithRoot(t, SpellingOf(NoteAt((getNoteIndex(RootNameOf(t)) + n) % 12)[1]))

RECURSIVE TransposedFrom(_, _, _)
TransposedFrom(str, n, k) ==
  IF k = 0 THEN str
  ELSE TransposedFrom(WithToken(str, k, TransposedToken(Token(str, k), n)), n, k - 1)

\* The progression with every chord root moved up n semitones.
Transposed(str, n) == TransposedFrom(str, n, TokenCount(str))

\* The key of the second result is the key of the first, n semitones up.
KeyMovedBy(key1, key2, n) ==
  /\ key1 /= Null
  /\ key2 /= Null
  /\ getNoteIndex(key2) = (getNoteIndex(key1) + n) % 12

\* C6: for every progression and every n in 0..11, moving every chord root up n
\* semitones moves the detected key up n semitones and leaves every entry's numeral,
\* function and diatonic flag as they are ("C" and "G" get the same numeral).
C6_TranspositionConsistent ==
  (pc = "done" /\ AllKnownChords(chordString)) =>
    \A n \in 0..11 :
      /\ KeyMovedBy(result.key, analyzeChords(Transposed(chordString, n)).key, n)
      /\ SameNumerals(result.analysis, analyzeChords(Transposed(chordString, n)).analysis)

(***************************************************************************)
(* C7.  "C, G, Am, F".                                                     *)
(***************************************************************************)
CGAmF == Text(<< <<"C">>, <<"G">>, Am, <<"F">> >>)

\* C7: "C, G, Am, F" is in the key of C with the numerals I, V, vi, IV in that order,
\* and every entry is diatonic.
C7_CGAmF ==
  (pc = "done" /\ chordString = CGAmF) =>
    /\ result.key = "C"
    /\ NumeralsOf(result.analysis) = <<"I", "V", "vi", "IV">>
    /\ \A i \in 1..4 : result.analysis[i].diatonic = TRUE

\* The call on "C, G, Am, F".
C7_Witness ==
  /\ pc = "done"
  /\ chordString = CGAmF
  /\ calls.getRomanNumeral = 4
  /\ result.analysis[3].chord = "Am"

(***************************************************************************)
(* C8.  "Am, F, G".                                                        *)
(***************************************************************************)
AmFG == Text(<< Am, <<"F">>, <<"G">> >>)

\* C8: "Am, F, G" (vi-IV-V, no tonic chord) is in the key of C with the numerals
\* vi, IV, V; C scores 14 (its base score, the IV-V bonus without the tonic and one
\* rotation proposal) and every other candidate key scores lower.
C8_AmFG ==
  (pc = "done" /\ chordString = AmFG) =>
    /\ result.key = "C"
    /\ NumeralsOf(result.analysis) = <<"vi", "IV", "V">>
    /\ CandidateScores(ParsedChords(chordString))["C"] = 14
    /\ \A k \in DOMAIN CandidateScores(ParsedChords(chordString)) :
         k /= "C" => CandidateScores(ParsedChords(chordString))[k]
                       < CandidateScores(ParsedChords(chordString))["C"]

\* The call on "Am, F, G": no tonic chord, and the IV-V detector proposes C.
C8_Witness ==
  /\ pc = "done"
  /\ chordString = AmFG
  /\ ~SomeNonMinorAt(ParsedChords(chordString), ScaleOf("C"), 0)
  /\ detectIVVPattern(ParsedChords(chordString)) = "C"
  /\ result.analysis[1].function = "Submediant"

(***************************************************************************)
(* C9.  Seventh chords.                                                    *)
(***************************************************************************)
Dm7G7Cmaj7 == Text(<< <<"D", "m", "7">>, <<"G", "7">>, <<"C", "m", "a", "j", "7">> >>)

\* The suffix the symbol asks for.
SuffixOf(t) ==
  IF ~Includes(t, <<"7">>) THEN ""
  ELSE IF Includes(t, <<"m", "a", "j", "7">>) \/ Includes(t, <<"M", "7">>) THEN "maj7"
  ELSE "7"

\* The chord without its seventh.
Triad(chord) == [chord EXCEPT !.isSeventh = FALSE, !.isMajorSeventh = FALSE]

\* The numerals of the triads, before the mark of a non-diatonic chord.
TriadNumerals ==
  LET plain == {ROMAN_NUMERALS.major[p] : p \in 1..7} \cup {ROMAN_NUMERALS.minor[p] : p \in 1..7}
                 \cup {chromaticIntervals[p] : p \in 1..12}
                 \cup {ToLowerCase(chromaticIntervals[p]) : p \in 1..12}
  IN plain \cup {n \o "°" : n \in plain} \cup {n \o "+" : n \in plain}

\* C9 as stated: "Dm7, G7, Cmaj7" is in the key of C with the numerals ii7, V7, Imaj7
\* and the functions Supertonic, Dominant, Tonic; the numeral of every seventh chord
\* carries the suffix "7", or "maj7" when the symbol contains maj7 or M7, and the
\* suffix does not change the diatonic verdict.
C9_EverySeventhCarriesSuffix ==
  pc = "done" =>
    /\ chordString = Dm7G7Cmaj7 =>
         /\ result.key = "C"
         /\ NumeralsOf(result.analysis) = <<"ii7", "V7", "Imaj7">>
         /\ FunctionsOf(result.analysis) = <<"Supertonic", "Dominant", "Tonic">>
    /\ \A i \in 1..Len(result.analysis) :
         LET token == Stripped(ParseableTokens(chordString)[i])
             triad == getRomanNumeral(Triad(parseChord(token)), result.key)
             entry == result.analysis[i]
         IN Includes(token, <<"7">>) =>
              /\ entry.diatonic = triad.diatonic
              /\ \E base \in TriadNumerals : \E mark \in {"", "*"} :
                   entry.numeral = base \o SuffixOf(token) \o mark

(***************************************************************************)
(* C10.  Major chords on the sixth degree, the tonic and the fourth degree.*)
(***************************************************************************)
\* The three tokens are major chords on the notes 9, 0 and 5 semitones above note K,
\* in any order and spelling.
IsVIAndIAndIVOf(str, K) ==
  /\ TokenCount(str) = 3
  /\ \A k \in 1..3 : Parses(Token(str, k)) /\ IsMajorChord(parseChord(Token(str, k)))
  /\ {getNoteIndex(RootNameOf(Token(str, k))) : k \in 1..3}
       = {(K + 9) % 12, K, (K + 5) % 12}

\* C10: for each of the 12 keys K, the progression of the three major chords on K's
\* sixth degree, tonic and fourth degree is in the key of K, and the chord on the sixth
\* degree has the numeral "VI*", the function "Tierce de Picardie" and is not diatonic.
C10_TierceDePicardie ==
  pc = "done" =>
    \A K \in 0..11 :
      IsVIAndIAndIVOf(chordString, K) =>
        /\ result.key /= Null
        /\ getNoteIndex(result.key) = K
        /\ result.key = PreferredSpelling(NoteAt(K)[1])
        /\ \A i \in 1..3 :
             getNoteIndex(RootNameOf(Token(chordString, i))) = (K + 9) % 12 =>
               /\ result.analysis[i].numeral = "VI*"
               /\ result.analysis[i].function = "Tierce de Picardie"
               /\ result.analysis[i].diatonic = FALSE

\* The call on "A, C, F".
C10_Witness ==
  /\ pc = "done"
  /\ chordString = Text(<< <<"A">>, <<"C">>, <<"F">> >>)
  /\ IsVIAndIAndIVOf(chordString, 0)
  /\ result.key = "C"
  /\ result.analysis[1].numeral = "VI*"

(***************************************************************************)
(* C11.  Every accepted chord resolves to a numeral.                       *)
(***************************************************************************)
\* C11: in every analysis, no entry has the placeholder numeral "?" or the function
\* "Unknown": every chord the parser accepts (among them "Cb", "Fb", "E#", "B#")
\* gets a diatonic, borrowed or chromatic-table numeral.
C11_EveryChordResolves ==
  pc = "done" =>
    \A i \in 1..Len(result.analysis) :
      /\ result.analysis[i].numeral /= "?"
      /\ result.analysis[i].function /= "Unknown"

(***************************************************************************)
(* C12.  The spelling of the key.                                          *)
(***************************************************************************)
TwelveKeys == {"C", "Db", "D", "Eb", "E", "F", "Gb", "G", "Ab", "A", "Bb", "B"}

SharpKeys == {"C#", "D#", "F#", "G#", "A#"}

\* C12: whenever at least one token parses as a chord, the key is one of the twelve
\* spellings C, Db, D, Eb, E, F, Gb, G, Ab, A, Bb, B: never null, never a sharp
\* spelling, and always a key of the scale table.
C12_KeyInPreferredSpelling ==
  (pc = "done" /\ ~NothingParses(chordString)) =>
    /\ result.key /= Null
    /\ result.key \notin SharpKeys
    /\ result.key \in TwelveKeys
    /\ \E n \in 1..Len(majorScales) : majorScales[n].key = result.key

\* The call on "C#": the best candidate is the sharp key C#, returned as Db.
C12_Witness ==
  /\ pc = "done"
  /\ chordString = <<"C", "#">>
  /\ BestCandidate(ParsedChords(chordString)) = "C#"
  /\ result.key = "Db"

(***************************************************************************)
(* C13.  The quality flags of a chord.                                     *)
(***************************************************************************)
FlagsSet(chord) ==
  (IF chord.isMinor THEN 1 ELSE 0) + (IF chord.isDiminished THEN 1 ELSE 0)
    + (IF chord.isAugmented THEN 1 ELSE 0)

\* C13: for every token that parseChord accepts, at most one of isMinor, isDiminished
\* and isAugmented is true, and the quality is "major" exactly when none of them is.
C13_QualityFlagsExclusive ==
  pc = "done" =>
    \A k \in 1..TokenCount(chordString) :
      Parses(Token(chordString, k)) =>
        /\ FlagsSet(parseChord(Token(chordString, k))) <= 1
        /\ parseChord(Token(chordString, k)).quality = "major"
             <=> FlagsSet(parseChord(Token(chordString, k))) = 0

(***************************************************************************)
(* C14.  The example progressions.                                         *)
(***************************************************************************)
\* C14: for every entry of the example list, the analysis of the entry's chords
\* string has the entry's expectedKey as its key.
C14_ExamplesGiveExpectedKey ==
  pc = "done" =>
    \A n \in 1..Len(ChordExamples) :
      chordString = ChordExamples[n].chords => result.key = ChordExamples[n].expectedKey

(***************************************************************************)
(* C15.  For every non-empty chord list the key detectKey returns is not   *)
(* rejected by the invalid-key filter unless the filter rejects every      *)
(* candidate: whatever the bonuses add to the penalty of a rejected key,   *)
(* it is not returned while an accepted candidate exists.                  *)
(***************************************************************************)
AllKeysInvalid(chords) ==
  \A n \in 1..Len(ScaleKeys) : keyHasInvalidBorrowedChords(chords, ScaleKeys[n])

ReturnedKeyPassesFilter(chords, key) ==
  keyHasInvalidBorrowedChords(chords, key) => AllKeysInvalid(chords)

C15_ReturnedKeyPassesFilter ==
  (pc = "done" /\ ParsedChords(chordString) /= <<>>) =>
    ReturnedKeyPassesFilter(ParsedChords(chordString), result.key)

\* The highest score of the crowded progression belongs to a rejected key, and the
\* call returns an accepted one.
HighestScoring(chords) == PickBest(CandidateScores(chords), 1, Null, NegInfinity)

C15_Witness ==
  /\ pc = "done"
  /\ chordString = JoinWith(Crowded, CommaSpace)
  /\ keyHasInvalidBorrowedChords(ParsedChords(chordString),
                                 HighestScoring(ParsedChords(chordString)))
  /\ ~keyHasInvalidBorrowedChords(ParsedChords(chordString), result.key)
  /\ ~AllKeysInvalid(ParsedChords(chordString))

(***************************************************************************)
(* C16.  detectKey returns the candidate whose total score is highest; of  *)
(* several candidates with the highest score the first in the table's      *)
(* iteration order (C, C#, Db, D, D#, Eb, E, F, F#, Gb, G, G#, Ab, A, A#,  *)
(* Bb, B) wins, and it is rendered in its preferred spelling.              *)
(***************************************************************************)
IterationOrder ==
  <<"C", "C#", "Db", "D", "D#", "Eb", "E", "F", "F#", "Gb", "G", "G#", "Ab", "A", "A#",
    "Bb", "B">>

\* order[n] is among `among`, no candidate among them scores more, and none before it
\* scores as much.
IsFirstHighest(scores, order, among, n) ==
  /\ order[n] \in among
  /\ \A m \in 1..Len(order) :
       order[m] \in among =>
         /\ scores[order[m]] <= scores[order[n]]
         /\ (m < n => scores[order[m]] < scores[order[n]])

AllCandidates == {IterationOrder[n] : n \in 1..Len(IterationOrder)}

AcceptedCandidates(chords) ==
  {k \in AllCandidates : ~keyHasInvalidBorrowedChords(chords, k)}

HighestScoreWins(scores, key) ==
  \E n \in 1..Len(IterationOrder) :
    /\ IsFirstHighest(scores, IterationOrder, AllCandidates, n)
    /\ key = PreferredSpelling(IterationOrder[n])

\* The claim as stated: the first candidate with the highest score is returned.
C16_HighestScoreWins ==
  (pc = "done" /\ ParsedChords(chordString) /= <<>>) =>
    HighestScoreWins(CandidateScores(ParsedChords(chordString)), result.key)

\* The first candidate with the highest score is returned, unless the filter rejects it
\* and accepts another candidate: then the first of the accepted candidates with the
\* highest score among them is returned.
HighestAcceptedScoreWins(scores, accepted, key) ==
  \E n \in 1..Len(IterationOrder) :
    /\ IsFirstHighest(scores, IterationOrder, AllCandidates, n)
    /\ IF IterationOrder[n] \notin accepted /\ accepted /= {}
       THEN \E a \in 1..Len(IterationOrder) :
              /\ IsFirstHighest(scores, IterationOrder, accepted, a)
              /\ key = PreferredSpelling(IterationOrder[a])
       ELSE key = PreferredSpelling(IterationOrder[n])

C16_HighestAcceptedScoreWins ==
  /\ ScaleKeys = IterationOrder
  /\ (pc = "done" /\ ParsedChords(chordString) /= <<>>) =>
       HighestAcceptedScoreWins(CandidateScores(ParsedChords(chordString)),
                                AcceptedCandidates(ParsedChords(chordString)), result.key)

\* "G": the keys C, D, D#, Eb and G share the highest score, and C, the first of them,
\* is returned.
TiedAtTheTop(scores, keys) ==
  /\ \A k \in keys, l \in keys : scores[k] = scores[l]
  /\ \A k \in keys, l \in AllCandidates \ keys : scores[l] < scores[k]

C16_Witness ==
  /\ pc = "done"
  /\ chordString = <<"G">>
  /\ TiedAtTheTop(CandidateScores(ParsedChords(chordString)), {"C", "D", "D#", "Eb", "G"})
  /\ result.key = "C"

(***************************************************************************)
(* C17.  keyHasInvalidBorrowedChords(chords, K) is true exactly when the   *)
(* list holds (a) a minor chord on K's flat second, or (b) a minor chord   *)
(* on K's flat fifth, or (c) a major chord on K's sixth degree together    *)
(* with a major chord on K's flat sixth or flat seventh, or (d) a major    *)
(* chord on K's flat seventh together with a minor chord on K's fifth      *)
(* degree.  Roots are compared as pitch classes; a major chord is neither  *)
(* minor, diminished nor augmented, a minor chord is minor and neither     *)
(* diminished nor augmented.                                               *)
(***************************************************************************)
\* The root of the chord names the note `semitones` above the key note.
RootAbove(chord, key, semitones) ==
  /\ getNoteIndex(chord.root) /= -1
  /\ (getNoteIndex(chord.root) - getNoteIndex(key) + 12) % 12 = semitones

MinorChordOn(chords, key, semitones) ==
  \E i \in 1..Len(chords) :
    /\ RootAbove(chords[i], key, semitones)
    /\ chords[i].isMinor /\ ~chords[i].isDiminished /\ ~chords[i].isAugmented

MajorChordOn(chords, key, semitones) ==
  \E i \in 1..Len(chords) :
    /\ RootAbove(chords[i], key, semitones)
    /\ ~chords[i].isMinor /\ ~chords[i].isDiminished /\ ~chords[i].isAugmented

MinorOnFlatSecond(chords, key) == MinorChordOn(chords, key, 1)
MinorOnFlatFifth(chords, key) == MinorChordOn(chords, key, 6)
MajorSixthWithBorrowed(chords, key) ==
  MajorChordOn(chords, key, 9) /\ (MajorChordOn(chords, key, 8) \/ MajorChordOn(chords, key, 10))
FlatSeventhWithMinorFifth(chords, key) ==
  MajorChordOn(chords, key, 10) /\ MinorChordOn(chords, key, 7)

InvalidByTheRules(chords, key) ==
  \/ MinorOnFlatSecond(chords, key)
  \/ MinorOnFlatFifth(chords, key)
  \/ MajorSixthWithBorrowed(chords, key)
  \/ FlatSeventhWithMinorFifth(chords, key)

FilterFollowsTheRules(chords) ==
  \A n \in 1..Len(ScaleKeys) :
    keyHasInvalidBorrowedChords(chords, ScaleKeys[n]) <=> InvalidByTheRules(chords, ScaleKeys[n])

C17_FilterFollowsTheRules ==
  pc = "done" => FilterFollowsTheRules(ParsedChords(chordString))

\* "Bb, Gm": the key C is rejected by rule (d) alone, the key D by no rule.
C17_Witness ==
  /\ pc = "done"
  /\ chordString = JoinWith(<< <<"B", "b">>, <<"G", "m">> >>, CommaSpace)
  /\ keyHasInvalidBorrowedChords(ParsedChords(chordString), "C")
  /\ FlatSeventhWithMinorFifth(ParsedChords(chordString), "C")
  /\ ~MinorOnFlatSecond(ParsedChords(chordString), "C")
  /\ ~MinorOnFlatFifth(ParsedChords(chordString), "C")
  /\ ~MajorSixthWithBorrowed(ParsedChords(chordString), "C")
  /\ ~keyHasInvalidBorrowedChords(ParsedChords(chordString), "D")

(***************************************************************************)
(* C18.  A candidate key under which a chord would be analysed as bIII*    *)
(* (a major chord on the key's flat third) is rejected by the invalid-key  *)
(* filter as a key with bii* or bv* is, and it is not the detected key     *)
(* while another candidate is valid: C is no key of a progression with a   *)
(* major Eb chord.                                                         *)
(***************************************************************************)
MajorOnFlatThird(chords, key) == MajorChordOn(chords, key, 3)

InvalidWithFlatThirdRule(chords, key) ==
  keyHasInvalidBorrowedChords(chords, key) \/ MajorOnFlatThird(chords, key)

FlatThirdKeysRejected(chords) ==
  \A n \in 1..Len(ScaleKeys) :
    MajorOnFlatThird(chords, ScaleKeys[n]) => keyHasInvalidBorrowedChords(chords, ScaleKeys[n])

FlatThirdKeyNotDetected(chords, key) ==
  MajorOnFlatThird(chords, key) =>
    \A n \in 1..Len(ScaleKeys) : InvalidWithFlatThirdRule(chords, ScaleKeys[n])

C18_FlatThirdKeyInvalid ==
  (pc = "done" /\ ParsedChords(chordString) /= <<>>) =>
    /\ FlatThirdKeyNotDetected(ParsedChords(chordString), result.key)
    /\ FlatThirdKeysRejected(ParsedChords(chordString))

(***************************************************************************)
(* C19.  In the rotation detector the tally of a key K is the number of    *)
(* ordered pairs of distinct positions (i, j) with chord i major (neither  *)
(* minor, diminished nor augmented), chord j minor, root j four semitones  *)
(* above root i and K seven semitones above root i; the detector reports   *)
(* the key with the largest tally and that tally, and no key when there is *)
(* no such pair.                                                           *)
(***************************************************************************)
\* The pairs (i, j) that count for the pitch class k.
RotationPairs(chords, k) ==
  {p \in (1..Len(chords)) \X (1..Len(chords)) :
     /\ p[1] /= p[2]
     /\ ~chords[p[1]].isMinor /\ ~chords[p[1]].isDiminished /\ ~chords[p[1]].isAugmented
     /\ chords[p[2]].isMinor
     /\ getNoteIndex(chords[p[1]].root) /= -1
     /\ getNoteIndex(chords[p[2]].root) /= -1
     /\ (getNoteIndex(chords[p[2]].root) - getNoteIndex(chords[p[1]].root) + 12) % 12 = 4
     /\ (k - getNoteIndex(chords[p[1]].root) + 12) % 12 = 7}

StatedTally(chords, k) == Cardinality(RotationPairs(chords, k))

PitchClasses == 0..11

\* The tally the detector keeps for the pitch class k.
TallyOf(candidateCounts, k) ==
  IF NoteAt(k)[1] \in DOMAIN candidateCounts THEN candidateCounts[NoteAt(k)[1]] ELSE 0

RotationAsStated(chords, info) ==
  /\ DOMAIN info.candidateCounts \subseteq {NoteAt(k)[1] : k \in PitchClasses}
  /\ \A k \in PitchClasses : TallyOf(info.candidateCounts, k) = StatedTally(chords, k)
  /\ IF \A k \in PitchClasses : StatedTally(chords, k) = 0
     THEN info.bestCandidate = Null /\ info.bestCount = 0
     ELSE /\ info.bestCandidate /= Null
          /\ getNoteIndex(info.bestCandidate) /= -1
          /\ info.bestCount = StatedTally(chords, getNoteIndex(info.bestCandidate))
          /\ \A k \in PitchClasses : StatedTally(chords, k) <= info.bestCount

C19_RotationTally ==
  pc = "done" =>
    RotationAsStated(ParsedChords(chordString), getRotationCandidate(ParsedChords(chordString)))

(***************************************************************************)
(* C20.  detectIVVPattern returns a key K only if the invalid-key filter   *)
(* accepts K and the list holds two major chords on K's fourth and fifth   *)
(* degrees; it returns no key exactly when no pair of major chords a whole *)
(* step apart leads to an accepted key; of several such pairs the first    *)
(* pair (i < j) in the scan order of the chord list gives K.               *)
(***************************************************************************)
\* Chords i < j are major and their roots a whole step apart, in either direction.
WholeStepPair(chords, i, j) ==
  /\ i < j
  /\ MajorChordOn(<<chords[i]>>, chords[i].root, 0)
  /\ MajorChordOn(<<chords[j]>>, chords[j].root, 0)
  /\ \/ RootAbove(chords[j], chords[i].root, 2)
     \/ RootAbove(chords[i], chords[j].root, 2)

\* The key in which the lower chord of the pair is IV, in its preferred spelling.
KeyOfPair(chords, i, j) ==
  LET lower == IF RootAbove(chords[j], chords[i].root, 2) THEN chords[i] ELSE chords[j]
  IN PreferredSpelling(NoteAt((getNoteIndex(lower.root) + 7) % 12)[1])

QualifyingPairs(chords) ==
  {p \in (1..Len(chords)) \X (1..Len(chords)) :
     /\ WholeStepPair(chords, p[1], p[2])
     /\ ~keyHasInvalidBorrowedChords(chords, KeyOfPair(chords, p[1], p[2]))}

\* p comes before q in the scan: outer index first, then inner index.
ScannedBefore(p, q) == p[1] < q[1] \/ (p[1] = q[1] /\ p[2] < q[2])

FirstPair(pairs) == CHOOSE p \in pairs : \A q \in pairs \ {p} : ScannedBefore(p, q)

FourthPairAsStated(chords, pairs, key) ==
  /\ key = Null <=> pairs = {}
  /\ key /= Null =>
       /\ ~keyHasInvalidBorrowedChords(chords, key)
       /\ MajorChordOn(chords, key, 5)
       /\ MajorChordOn(chords, key, 7)
       /\ key = KeyOfPair(chords, FirstPair(pairs)[1], FirstPair(pairs)[2])

C20_FourthPairDetector ==
  pc = "done" =>
    FourthPairAsStated(ParsedChords(chordString), QualifyingPairs(ParsedChords(chordString)),
                       detectIVVPattern(ParsedChords(chordString)))

\* "C, D, E": the pairs (C, D) and (D, E) both qualify, for the keys G and A; the first
\* gives the key.
C20_Witness ==
  /\ pc = "done"
  /\ chordString = JoinWith(<< <<"C">>, <<"D">>, <<"E">> >>, CommaSpace)
  /\ QualifyingPairs(ParsedChords(chordString)) = {<<1, 2>>, <<2, 3>>}
  /\ KeyOfPair(ParsedChords(chordString), 2, 3) = "A"
  /\ detectIVVPattern(ParsedChords(chordString)) = "G"

(***************************************************************************)
(* C21.  For a progression that matches none of the literal special cases  *)
(* the VI* detector proposes the first valid key K in scan order with a    *)
(* major chord on K's sixth degree and, beside it, a major chord on K's    *)
(* first or fourth degree, or major chords on both K's fourth and fifth    *)
(* degrees; it proposes no key exactly when no valid key is such a key     *)
(* ("A, C" makes it propose C).                                            *)
(***************************************************************************)
LiteralCases ==
  {{"F", "Ab", "Db"}, {"D", "F", "Bb"}, {"A", "C", "F"}, {"C", "Eb", "Ab"},
   {"G", "Bb", "Eb"}, {"E", "G", "C"}}

MatchesLiteralCase(chords) ==
  \E case \in LiteralCases : \A root \in case : MajorChordOn(chords, root, 0)

\* The support the claim asks for beside the major sixth.
StatedSupport(chords, key) ==
  /\ MajorChordOn(chords, key, 9)
  /\ \/ MajorChordOn(chords, key, 0)
     \/ MajorChordOn(chords, key, 5)
     \/ (MajorChordOn(chords, key, 5) /\ MajorChordOn(chords, key, 7))

\* The support with the tonic backed by the fourth or the fifth degree.
BackedSupport(chords, key) ==
  /\ MajorChordOn(chords, key, 9)
  /\ \/ (MajorChordOn(chords, key, 0)
          /\ (MajorChordOn(chords, key, 5) \/ MajorChordOn(chords, key, 7)))
     \/ (MajorChordOn(chords, key, 5) /\ MajorChordOn(chords, key, 7))

\* The proposal is the first key of the scan among `keys`, or none when `keys` is empty.
IsFirstOf(keys, proposal) ==
  IF keys = {} THEN proposal = Null
  ELSE \E n \in 1..Len(IterationOrder) :
         /\ IterationOrder[n] \in keys
         /\ \A m \in 1..(n - 1) : IterationOrder[m] \notin keys
         /\ proposal = PreferredSpelling(IterationOrder[n])

StatedVIKeys(chords) ==
  {k \in AcceptedCandidates(chords) : StatedSupport(chords, k)}

BackedVIKeys(chords) ==
  {k \in AcceptedCandidates(chords) : BackedSupport(chords, k)}

\* The claim as stated.
C21_VIScanAsStated ==
  (pc = "done" /\ ~MatchesLiteralCase(ParsedChords(chordString))) =>
    IsFirstOf(StatedVIKeys(ParsedChords(chordString)),
              detectVIPattern(ParsedChords(chordString)))

\* The claim with the support the scan asks for: beside the major sixth, a major chord
\* on the first degree together with one on the fourth or fifth degree, or major chords
\* on both the fourth and fifth degrees.
C21_VIScanBackedSupport ==
  (pc = "done" /\ ~MatchesLiteralCase(ParsedChords(chordString))) =>
    IsFirstOf(BackedVIKeys(ParsedChords(chordString)),
              detectVIPattern(ParsedChords(chordString)))

\* "A, C, G" is no literal case: C is proposed for the major chords on its sixth, first
\* and fifth degrees.
C21_Witness ==
  /\ pc = "done"
  /\ chordString = JoinWith(<< <<"A">>, <<"C">>, <<"G">> >>, CommaSpace)
  /\ ~MatchesLiteralCase(ParsedChords(chordString))
  /\ "C" \in BackedVIKeys(ParsedChords(chordString))
  /\ detectVIPattern(ParsedChords(chordString)) = "C"

(***************************************************************************)
(* C22.  Every key the VI* detector proposes, by its general scan or by    *)
(* one of its six literal special cases, is a key the invalid-key filter   *)
(* accepts for the progression: the +10 bonus of the VI* pattern is never  *)
(* added to a rejected key.                                                *)
(***************************************************************************)
ProposalAccepted(chords, viPattern) ==
  viPattern /= Null => ~keyHasInvalidBorrowedChords(chords, viPattern)

C22_VIProposalAccepted ==
  pc = "done" =>
    ProposalAccepted(ParsedChords(chordString), detectVIPattern(ParsedChords(chordString)))

(***************************************************************************)
(* C23.  The +10 bonus for an absent tonic is added to a candidate key K   *)
(* exactly when the progression has no major chord on K's tonic and has    *)
(* major chords on K's sixth, fourth and second degrees; without a major   *)
(* chord on the second degree it is not added ("A, F" gives C no bonus).   *)
(***************************************************************************)
NoScores == [c \in {ScaleKeys[n] : n \in 1..Len(ScaleKeys)} |-> 0]

\* What the bonus step adds to the score of each candidate.
TonicAbsentBonuses(chords) == WithTonicAbsentBonus(chords, NoScores)

StatedTonicAbsent(chords, key) ==
  /\ ~MajorChordOn(chords, key, 0)
  /\ MajorChordOn(chords, key, 9)
  /\ MajorChordOn(chords, key, 5)
  /\ MajorChordOn(chords, key, 2)

TonicAbsentAsStated(chords, bonuses) ==
  \A k \in DOMAIN bonuses :
    bonuses[k] = (IF StatedTonicAbsent(chords, k) THEN 10 ELSE 0)

C23_TonicAbsentBonus ==
  (pc = "done" /\ ParsedChords(chordString) /= <<>>) =>
    TonicAbsentAsStated(ParsedChords(chordString), TonicAbsentBonuses(ParsedChords(chordString)))

(***************************************************************************)
(* C24.  The scorer ranks twelve keys, one per pitch class: at the end of  *)
(* scoring the two spellings of a key (C#/Db, D#/Eb, F#/Gb, G#/Ab, A#/Bb)  *)
(* hold the same total score, so that every bonus a key earns adds up on   *)
(* one score for that key.                                                 *)
(***************************************************************************)
SpellingsAgree(scores) ==
  \A k \in DOMAIN scores, l \in DOMAIN scores :
    getNoteIndex(k) = getNoteIndex(l) => scores[k] = scores[l]

C24_OneScorePerKey ==
  (pc = "done" /\ ParsedChords(chordString) /= <<>>) =>
    SpellingsAgree(CandidateScores(ParsedChords(chordString)))

(***************************************************************************)
(* C25.  For every candidate key K the filter accepts, the base score is   *)
(* 2 for each chord whose root is in K's scale at a position whose         *)
(* expected quality the chord has, +1 for each of tonic, subdominant and   *)
(* dominant with a major chord on it, +3 for a major chord on the mediant, *)
(* +2 for a major chord on the submediant, +4 when a major tonic, a minor  *)
(* submediant and a major flat-sixth or flat-seventh chord are all there,  *)
(* where major means neither minor, diminished nor augmented; a rejected   *)
(* key has -1000.                                                          *)
(***************************************************************************)
\* Semitones above the key note of the scale positions I, IV, V / ii, iii, vi / vii.
MajorDegrees == {0, 5, 7}
MinorDegrees == {2, 4, 9}
DiminishedDegrees == {11}

\* The chord has the quality its position in the key's scale expects.
HasExpectedQuality(chord, key) ==
  \/ \E d \in DiminishedDegrees : RootAbove(chord, key, d) /\ chord.isDiminished
  \/ \E d \in MinorDegrees :
       RootAbove(chord, key, d) /\ chord.isMinor /\ ~chord.isDiminished
  \/ \E d \in MajorDegrees :
       RootAbove(chord, key, d)
         /\ ~chord.isMinor /\ ~chord.isDiminished /\ ~chord.isAugmented

AnyMinorOn(chords, key, semitones) ==
  \E i \in 1..Len(chords) : RootAbove(chords[i], key, semitones) /\ chords[i].isMinor

Points(condition, points) == IF condition THEN points ELSE 0

StatedBaseScore(chords, key) ==
  IF keyHasInvalidBorrowedChords(chords, key) THEN -1000
  ELSE 2 * Cardinality({i \in 1..Len(chords) : HasExpectedQuality(chords[i], key)})
       + Points(MajorChordOn(chords, key, 0), 1)
       + Points(MajorChordOn(chords, key, 5), 1)
       + Points(MajorChordOn(chords, key, 7), 1)
       + Points(MajorChordOn(chords, key, 4), 3)
       + Points(MajorChordOn(chords, key, 9), 2)
       + Points(/\ MajorChordOn(chords, key, 0)
                /\ AnyMinorOn(chords, key, 9)
                /\ (MajorChordOn(chords, key, 8) \/ MajorChordOn(chords, key, 10)), 4)

BaseScoresAsStated(chords, scores) ==
  \A k \in DOMAIN scores : scores[k] = StatedBaseScore(chords, k)

C25_BaseScore ==
  (pc = "done" /\ ParsedChords(chordString) /= <<>>) =>
    BaseScoresAsStated(ParsedChords(chordString), BaseScores(ParsedChords(chordString)))

(***************************************************************************)
(* C26.  For a chord whose root lies in the scale of the chosen key the    *)
(* numeral is the position's Roman numeral, in lowercase for a minor       *)
(* chord, in lowercase with "°" for a diminished chord, in uppercase with  *)
(* "+" for an augmented chord and in uppercase otherwise, followed by      *)
(* "maj7" or "7" for a seventh chord, whatever the spelling of the         *)
(* quality: "Bdim" and "B°" in the key of C are both vii°.                 *)
(***************************************************************************)
\* Semitones above the key note of the seven scale positions.
ScaleSteps == <<0, 2, 4, 5, 7, 9, 11>>

\* The chord's root is at position p (1..7) of the key's scale.
RootAtPosition(chord, key, p) == RootAbove(chord, key, ScaleSteps[p])

StatedNumeral(chord, p) ==
  (IF chord.isDiminished THEN ROMAN_NUMERALS.minor[p] \o "°"
   ELSE IF chord.isMinor THEN ROMAN_NUMERALS.minor[p]
   ELSE IF chord.isAugmented THEN ROMAN_NUMERALS.major[p] \o "+"
   ELSE ROMAN_NUMERALS.major[p])
  \o (IF chord.isSeventh THEN (IF chord.isMajorSeventh THEN "maj7" ELSE "7") ELSE "")

\* The numeral is the stated one, with or without the mark of a non-diatonic chord.
NumeralAsStated(chord, key, numeral) ==
  \A p \in 1..Len(ScaleSteps) :
    RootAtPosition(chord, key, p) =>
      numeral \in {StatedNumeral(chord, p), StatedNumeral(chord, p) \o "*"}

NumeralsAsStated(chords, key, analysis) ==
  \A i \in 1..Len(analysis) : NumeralAsStated(chords[i], key, analysis[i].numeral)

C26_ScaleNumerals ==
  (pc = "done" /\ ParsedChords(chordString) /= <<>>) =>
    NumeralsAsStated(ParsedChords(chordString), result.key, result.analysis)

(***************************************************************************)
(* C27.  In every analysis result the numeral of an entry ends with "*"    *)
(* exactly when the entry's diatonic flag is false, and the flag is true   *)
(* exactly when the chord's root is in the scale of the detected key at a  *)
(* position whose expected quality (I, IV, V major; ii, iii, vi minor;     *)
(* vii diminished) is the quality of the chord.                            *)
(***************************************************************************)
SeventhSuffixes == {"", "7", "maj7"}

\* The numerals without the mark, and the numerals that end with it.
UnmarkedNumerals == {n \o x : n \in TriadNumerals, x \in SeventhSuffixes} \cup {"?"}

MarkedNumerals ==
  {n \o x \o "*" : n \in TriadNumerals, x \in SeventhSuffixes} \cup {"bVI*", "bVII*"}

EndsWithMark(numeral) == numeral \in MarkedNumerals

MarkTellsDiatonic(chord, key, entry) ==
  /\ entry.numeral \in MarkedNumerals \cup UnmarkedNumerals
  /\ EndsWithMark(entry.numeral) <=> ~entry.diatonic
  /\ entry.diatonic <=> HasExpectedQuality(chord, key)

C27_MarkTellsDiatonic ==
  (pc = "done" /\ ParsedChords(chordString) /= <<>>) =>
    \A i \in 1..Len(result.analysis) :
      MarkTellsDiatonic(ParsedChords(chordString)[i], result.key, result.analysis[i])

(***************************************************************************)
(* C28.  For a chord whose root lies in the scale of the chosen key the    *)
(* function is the standard name of the position, except in four cases: a  *)
(* major chord on ii is "V of V", a major chord on iii is "Phrygian        *)
(* Dominant", a minor chord on iv is "Minor Four", a major chord on vi is  *)
(* "Tierce de Picardie"; a diminished or augmented chord on ii, iii or vi  *)
(* keeps the standard name.                                                *)
(***************************************************************************)
StatedFunction(chord, p) ==
  IF IsMajorChord(chord) /\ p = 2 THEN "V of V"
  ELSE IF IsMajorChord(chord) /\ p = 3 THEN "Phrygian Dominant"
  ELSE IF IsPlainMinor(chord) /\ p = 4 THEN "Minor Four"
  ELSE IF IsMajorChord(chord) /\ p = 6 THEN "Tierce de Picardie"
  ELSE FUNCTION_NAMES[p]

FunctionAsStated(chord, key, entry) ==
  \A p \in 1..Len(ScaleSteps) :
    RootAtPosition(chord, key, p) => entry.function = StatedFunction(chord, p)

C28_FunctionNames ==
  (pc = "done" /\ ParsedChords(chordString) /= <<>>) =>
    \A i \in 1..Len(result.analysis) :
      FunctionAsStated(ParsedChords(chordString)[i], result.key, result.analysis[i])

(***************************************************************************)
(* C29.  Key detection is order-insensitive: detectKey returns the same    *)
(* key for a chord list and for every permutation of it.                   *)
(***************************************************************************)
OrdersOf(n) ==
  {q \in [1..n -> 1..n] : \A i \in 1..n, j \in 1..n : q[i] = q[j] => i = j}

Reversed(chords) == [i \in 1..Len(chords) |-> chords[Len(chords) + 1 - i]]

\* The reorderings of the chord list that are compared with it.
Reorderings(chords) ==
  IF Len(chords) <= MaxPermuted
  THEN {[i \in 1..Len(chords) |-> chords[q[i]]] : q \in OrdersOf(Len(chords))}
  ELSE {Reversed(chords)}

\* The claim as stated.
C29_OrderInsensitive ==
  (pc = "done" /\ ParsedChords(chordString) /= <<>>) =>
    \A reordered \in Reorderings(ParsedChords(chordString)) :
      detectKey(reordered) = result.key

\* The two detectors whose result depends on positions give the same result.
SamePositionalPicks(chords, reordered) ==
  /\ detectIVVPattern(reordered) = detectIVVPattern(chords)
  /\ getRotationCandidate(reordered).bestCandidate = getRotationCandidate(chords).bestCandidate

\* Order-insensitive apart from the first qualifying pair of the fourth-pair detector
\* and the first largest tally of the rotation detector.
C29_OrderInsensitiveApartFromPicks ==
  (pc = "done" /\ ParsedChords(chordString) /= <<>>) =>
    \A reordered \in Reorderings(ParsedChords(chordString)) :
      SamePositionalPicks(ParsedChords(chordString), reordered) =>
        detectKey(reordered) = result.key

\* "Eb, F, C, D" is in Bb, and so is "F, Eb, C, D", whose first whole-step pair is the
\* same; "C, F, D, Eb", whose first pair is C and D, is in G.
EbFCD == ParsedChords(JoinWith(<< <<"E", "b">>, <<"F">>, <<"C">>, <<"D">> >>, CommaSpace))
FEbCD == ParsedChords(JoinWith(<< <<"F">>, <<"E", "b">>, <<"C">>, <<"D">> >>, CommaSpace))
CFDEb == ParsedChords(JoinWith(<< <<"C">>, <<"F">>, <<"D">>, <<"E", "b">> >>, CommaSpace))

C29_Witness ==
  /\ pc = "done"
  /\ ParsedChords(chordString) = EbFCD
  /\ result.key = "Bb"
  /\ FEbCD \in Reorderings(EbFCD)
  /\ SamePositionalPicks(EbFCD, FEbCD)
  /\ detectKey(FEbCD) = "Bb"
  /\ CFDEb \in Reorderings(EbFCD)
  /\ ~SamePositionalPicks(EbFCD, CFDEb)
  /\ detectKey(CFDEb) = "G"

(***************************************************************************)
(* C30.  In any sequence of form submissions and "Download MIDI" clicks:   *)
(* a click before the first submission with non-empty input builds no MIDI *)
(* file and only alerts; a click after it exports the chord list of the    *)
(* most recent submission with non-empty input, using the Roman-numeral    *)
(* output for nothing and the detected key only for the file name; and a   *)
(* submission with empty (white space only) input leaves the stored        *)
(* analysis and the displayed results unchanged.                           *)
(***************************************************************************)
\* The name of the pitch a number of semitones above C0.
PitchName(semitones) == MidiNotes[(semitones % 12) + 1] \o ToString(semitones \div 12)

\* The pitches of a chord token: its root in octave 2, the fifth 7 semitones and the
\* third-equivalent tenth 15 (minor) or 16 semitones above; none for an unknown root.
PitchesOfToken(t) ==
  IF getNoteIndex(RootNameOf(t)) = -1 THEN <<>>
  ELSE << PitchName(24 + getNoteIndex(RootNameOf(t))),
          PitchName(24 + getNoteIndex(RootNameOf(t)) + 7),
          PitchName(24 + getNoteIndex(RootNameOf(t))
                      + (IF parseChord(t).isMinor THEN 15 ELSE 16)) >>

\* The chord list of a submission: the pitches of its parseable tokens, in order.
ChordListOf(str) ==
  [i \in 1..Len(ParseableTokens(str)) |-> PitchesOfToken(ParseableTokens(str)[i])]

\* The file name for a detected key: a flat is written out, no key is C.
KeyInFileName ==
  ("Db" :> "Dflat") @@ ("Eb" :> "Eflat") @@ ("Gb" :> "Gflat") @@ ("Ab" :> "Aflat")
    @@ ("Bb" :> "Bflat") @@ (Null :> "C")

FileNameFor(key) ==
  "progression-in-" \o (IF key \in DOMAIN KeyInFileName THEN KeyInFileName[key] ELSE key)
    \o ".mid"

\* The file is the export of the submission: named for its key, holding its chord list.
ExportsSubmission(file, str) ==
  /\ file /= NoDownload
  /\ file.download = FileNameFor(analyzeChords(str).key)
  /\ [i \in 1..Len(file.track) |-> file.track[i].chord] = ChordListOf(str)

\* What a click does, as stated.
ClickAsStated ==
  event' = "click" =>
    IF submitted = <<>>
    THEN /\ download' = NoDownload
         /\ alertText' /= Null
    ELSE /\ ExportsSubmission(download', submitted[1])
         /\ alertText' = Null

\* What a click does, the library taken into account: without window.Midi, or when
\* the export raises, the click alerts and builds no file.
ClickWithLibrary ==
  event' = "click" =>
    IF submitted = <<>>
    THEN /\ download' = NoDownload
         /\ alertText' = "Please analyze chords first before downloading MIDI"
    ELSE IF windowMidi = "loaded"
    THEN /\ ExportsSubmission(download', submitted[1])
         /\ alertText' = Null
    ELSE /\ download' = download
         /\ alertText' = IF windowMidi = "undefined" THEN "jsmidgen library not found."
                         ELSE "MIDI export failed. Check console."

\* What a submission of empty input does.
EmptySubmissionAsStated ==
  (event' = "submit" /\ Trim(chordString') = <<>>) =>
    UNCHANGED <<currentAnalysis, displayed, submitted>>

\* What is stored and shown is the analysis of the last submission that was not empty.
StoredAsStated ==
  IF submitted' = <<>> THEN currentAnalysis' = NullRecord /\ displayed' = Hidden
  ELSE /\ currentAnalysis' = analyzeChords(submitted'[1])
       /\ displayed' = displayResults(currentAnalysis')

\* C30 as stated: every click after a submission with non-empty input exports.
C30_SubmitAndDownload ==
  [][ClickAsStated /\ EmptySubmissionAsStated /\ StoredAsStated]_vars

\* C30, amended: a click before the first submission with non-empty input alerts and
\* builds no file; a click after it exports the chord list of the most recent such
\* submission, named for the detected key, when window.Midi is loaded and the export
\* raises nothing, and otherwise alerts and builds no file; a submission with empty
\* input leaves the stored analysis and the displayed results unchanged.
C30_SubmitAndDownloadWithLibrary ==
  [][ClickWithLibrary /\ EmptySubmissionAsStated /\ StoredAsStated]_vars

\* With the library loaded, "Bb, Eb, F" was submitted, then white space only, then the
\* button was clicked: the file is named for B flat and holds the three chords.
C30_Witness ==
  /\ windowMidi = "loaded"
  /\ event = "click"
  /\ chordString = <<" ", "\t", "\f">>
  /\ submitted = << JoinWith(<< <<"B", "b">>, <<"E", "b">>, <<"F">> >>, CommaSpace) >>
  /\ alertText = Null
  /\ download.download = "progression-in-Bflat.mid"
  /\ [i \in 1..Len(download.track) |-> download.track[i].chord]
       = << <<"A#2", "F3", "D4">>, <<"D#2", "A#2", "G3">>, <<"F2", "C3", "A3">> >>
  /\ displayed.key = "Bb"

====
